---------------------------- MODULE Spec2Model ----------------------------
(***************************************************************************)
(* Regulatory search handler (DocService/sources/regulatorySearchHandler.js) *)
(*                                                                         *)
(* One run of handleRegulatorySearch is modelled as a state machine whose  *)
(* actions are the segments of the async function between two awaits: a     *)
(* segment runs to completion (JavaScript run-to-completion), so all the    *)
(* events it sends are appended in one step.  The backend calls             *)
(* (decomposeQuery, generateEmbedding, searchDocuments, streamClaude) are   *)
(* driven by the events of the https transport: a request error, a          *)
(* response with a status, data, end - or nothing more at all (a stalled    *)
(* or cut-off response, on which the code has no listener and no timeout).  *)
(***************************************************************************)
EXTENDS Integers, Sequences, FiniteSets, TLC

VARIABLES
    request,            \* the parsed inbound request: body kind, query, sources_only
    pc,                 \* position of handleRegulatorySearch (which await it is suspended at)
    events,             \* the sequence of events written by send(), in order
    ended,              \* res.end() has been called
    subQueriesWithIds,  \* the list the search loop iterates over
    sqIndex,            \* index (1-based) of the sub-query the loop is at
    resultLists,        \* the result list gathered for each sub-query searched so far
    allSources,         \* allSources: concatenation of the gathered result lists
    uniqueSources,      \* uniqueSources: values of the dedup Map, in insertion order, sorted
    topSources,         \* topSources: what the sources event carries
    call,               \* state of the transport of the backend call in flight
    streamStatus,       \* statusCode of the model stream response
    chunkCount,         \* number of data events the model stream has delivered
    lastCall,           \* the backend call that settled last: what the transport
                        \* delivered to it and how its promise settled
    callLog,            \* the backend calls started so far, in order
    connected,          \* the caller's connection is still open
    wire,               \* the bytes the model host sends on one stream response
    fed,                \* how many of them have been delivered in data events
    buffer,             \* streamClaude's buffer
    forwarded,          \* the texts passed to onChunk so far, in order
    fullContent,        \* streamClaude's fullContent
    hung,               \* the decode loop has entered an iteration it never leaves
    eventTypes,         \* the eventType read for each message extracted so far
    content,            \* the text of the model's answer to the decomposition call
    resolved,           \* what decomposeQuery has resolved to for it
    signInputs,         \* the arguments and the clock of two calls of signRequest
    signOutputs,        \* the header maps the two calls returned
    req,                \* the request handed to handleCors
    res,                \* the response handed to handleCors
    returned,           \* what handleCors returned
    invocation,         \* the inputs of one model-invocation request
    sent,               \* the request it handed to https.request
    handler,            \* the CSR proxy handler the router has called
    inbound,            \* the request it was called with
    proxyReq,           \* the request to the CSR agent: proxyReq
    proxyRes,           \* the agent's response: proxyRes and what was collected of it
    clientRes,          \* the response to the proxy's caller: res
    clientOps,          \* the calls made on res, in order
    uncaught,           \* an exception has escaped a callback
    sessionCache        \* the session ids cached by handleIndex

vars == <<request, pc, events, ended, subQueriesWithIds, sqIndex, resultLists,
          allSources, uniqueSources, topSources, call, streamStatus, chunkCount,
          lastCall, callLog, connected, wire, fed, buffer, forwarded, fullContent,
          hung, eventTypes, content, resolved, signInputs, signOutputs, req, res, returned,
          invocation, sent, handler, inbound, proxyReq, proxyRes, clientRes,
          clientOps, uncaught, sessionCache>>

\* the state of the frame decoder of streamClaude
decoderVars == <<wire, fed, buffer, forwarded, fullContent, hung, eventTypes>>

\* the state of the functions that are studied on their own
signVars == <<signInputs, signOutputs>>
corsVars == <<req, res, returned>>
invokeVars == <<invocation, sent>>
proxyVars == <<handler, inbound, proxyReq, proxyRes, clientRes, clientOps, uncaught,
               sessionCache>>
unitVars == <<content, resolved, signVars, corsVars, invokeVars, proxyVars>>

\* the decoder before any byte
DecoderIdle ==
    /\ wire = <<>>
    /\ fed = 0
    /\ buffer = <<>>
    /\ forwarded = <<>>
    /\ fullContent = ""
    /\ hung = FALSE
    /\ eventTypes = <<>>

\* no text under study
ExtractIdle ==
    /\ content = <<>>
    /\ resolved = <<>>

\* no signing under study
SignIdle ==
    /\ signInputs = <<>>
    /\ signOutputs = <<>>

\* no preflight under study
CorsIdle ==
    /\ req = [method |-> "none"]
    /\ res = [statusCode |-> 200, headers |-> <<>>, ended |-> FALSE, body |-> ""]
    /\ returned = "nothing"

\* no model invocation under study
InvokeIdle ==
    /\ invocation = [kind |-> "none"]
    /\ sent = <<>>

\* no proxied request under study
ProxyIdle ==
    /\ handler = "none"
    /\ inbound = [kind |-> "none"]
    /\ proxyReq = [state |-> "none", destroyed |-> FALSE]
    /\ proxyRes = [statusCode |-> 0, data |-> "", chunks |-> 0]
    /\ clientRes = [statusCode |-> 200, headers |-> <<>>, headersSent |-> FALSE,
                    ended |-> FALSE, written |-> <<>>]
    /\ clientOps = <<>>
    /\ uncaught = FALSE
    /\ sessionCache = {}

-----------------------------------------------------------------------------
(* Bounds of the model *)

\* largest number of entries in the subQueries array returned by the model
MaxSubQ == 3
\* largest number of data events delivered by the model stream in one run
MaxChunks == 2
\* document ids are 1..MaxId for the hits returned one at a time
MaxId == 2
\* relevance scores are 0..MaxScore
MaxScore == 2
\* largest page of hits returned by one sub-query of the ranking specification
MaxBulk == 10
\* largest number of frames in one response of the model stream
MaxFrames == 2
\* largest number of symbols in the text of a decomposition answer
MaxText == 5

\* uniqueSources.slice(0, 8)
TopN == 8

-----------------------------------------------------------------------------
(* Values *)

Min(a, b) == IF a < b THEN a ELSE b

\* fullContent += text, for the texts of one data event
RECURSIVE Join(_)
Join(texts) == IF texts = <<>> THEN "" ELSE Head(texts) \o Join(Tail(texts))

\* what JSON.parse(body) and the destructuring of {query, sources_only} can give
BodyKinds == {"invalid", "null", "object"}
\* query: absent (undefined), the empty string, or a non-empty string
QueryValues == {"absent", "", "q"}

Requests == [body : BodyKinds, query : QueryValues, sources_only : BOOLEAN]

\* SourceHit: identity is id; relevanceScore is hit._score || 0
Hits == [id : 1..MaxId, relevanceScore : 0..MaxScore]

\* text fragments carried by content-block-delta frames
Fragments == {"alpha", "beta"}

\* error.message of a transport error; may be empty
ErrorMessages == {"socket hang up", ""}

NoDocsText == "No relevant documents found for your query. Please try rephrasing your question."

-----------------------------------------------------------------------------
(* Events written by send() *)

StepEvent(step, status) == [type |-> "step", step |-> step, status |-> status]
SubQueriesEvent(sqs) == [type |-> "subQueries", subQueries |-> sqs]
SearchingEvent(id) == [type |-> "subQueryStatus", id |-> id, status |-> "searching"]
CompleteEvent(id, n) ==
    [type |-> "subQueryStatus", id |-> id, status |-> "complete", resultCount |-> n]
SourcesEvent(srcs) == [type |-> "sources", sources |-> srcs]
AnswerChunkEvent(text) == [type |-> "answerChunk", text |-> text]
ErrorEvent(message) == [type |-> "error", message |-> message]
DoneEvent == [type |-> "done"]

\* the catch block: error.message || 'Search failed'
CatchEvent(message) == ErrorEvent(IF message = "" THEN "Search failed" ELSE message)

IsTerminal(e) == e.type \in {"done", "error"}

-----------------------------------------------------------------------------
(* Deduplication and ranking (handleRegulatorySearch, lines 729-741) *)

\* position of id among the keys of the Map, 0 when absent (Map.has)
KeyIndex(m, id) ==
    IF \E i \in 1..Len(m) : m[i].id = id
    THEN CHOOSE i \in 1..Len(m) : m[i].id = id
    ELSE 0

\* Map.set: a new key is appended, an existing key keeps its insertion position
MapSet(m, source) ==
    LET k == KeyIndex(m, source.id)
    IN  IF k = 0 THEN Append(m, source)
        ELSE [m EXCEPT ![k] = source]

\* a dedup that keeps the first occurrence of an id whatever its score
ReplacesNever(m, source) == KeyIndex(m, source.id) = 0

\* the condition of line 732: a hit is stored when its id is new or when it is
\* strictly better than the stored one
Replaces(m, source) ==
    \/ KeyIndex(m, source.id) = 0
    \/ source.relevanceScore > m[KeyIndex(m, source.id)].relevanceScore

RECURSIVE DedupeFrom(_, _, _)
DedupeFrom(m, all, i) ==
    IF i > Len(all) THEN m
    ELSE DedupeFrom(IF Replaces(m, all[i]) THEN MapSet(m, all[i]) ELSE m, all, i + 1)

\* Array.from(uniqueSourcesMap.values())
Dedupe(all) == DedupeFrom(<<>>, all, 1)

\* a comparator that orders nothing
CompareNone(a, b) == 0

\* the comparator of line 739: b.relevanceScore - a.relevanceScore
Compare(a, b) == b.relevanceScore - a.relevanceScore

\* number of leading elements of s that stay before x: Array.prototype.sort is
\* stable, so x goes after every element that does not compare greater than it
RECURSIVE KeepBefore(_, _, _)
KeepBefore(s, x, i) ==
    IF i > Len(s) THEN Len(s)
    ELSE IF Compare(s[i], x) > 0 THEN i - 1
    ELSE KeepBefore(s, x, i + 1)

InsertSorted(s, x) ==
    LET k == KeepBefore(s, x, 1)
    IN  SubSeq(s, 1, k) \o <<x>> \o SubSeq(s, k + 1, Len(s))

RECURSIVE SortFrom(_, _, _)
SortFrom(acc, s, i) ==
    IF i > Len(s) THEN acc ELSE SortFrom(InsertSorted(acc, s[i]), s, i + 1)

\* uniqueSources.sort(...)
SortByRelevance(s) == SortFrom(<<>>, s, 1)

\* a slice that is off by one
SliceOneMore(s) == SubSeq(s, 1, Min(Len(s), TopN + 1))

\* uniqueSources.slice(0, 8)
Slice(s) == SubSeq(s, 1, Min(Len(s), TopN))

\* allSources.concat(results) over all gathered lists
RECURSIVE Flatten(_)
Flatten(lists) ==
    IF Len(lists) = 0 THEN <<>> ELSE Head(lists) \o Flatten(Tail(lists))

-----------------------------------------------------------------------------
(* The backend calls: what each resolves to, or that it rejects, as a        *)
(* function of what the transport delivered                                  *)

\* the single-element fallback of decomposeQuery
Fallback(query) == <<[query |-> query, intent |-> "main query"]>>

\* the subQueries array of n entries found in the model's answer
ModelSubQueries(n) == [i \in 1..n |-> [query |-> "sub", intent |-> "facet"]]

\* what the transport of the decomposition call delivers:
\*   a request error; or a complete response whose body is not JSON, is JSON
\*   without output.message.content[0].text, carries a text that is not JSON,
\*   a JSON text without subQueries, a subQueries array of n entries, or a
\*   subQueries value that is truthy and not an array of objects
DecomposeResponses ==
    [kind : {"requestError", "notJson", "noContent", "textNotJson", "noSubQueries",
             "notArray"}, n : {0}]
    \cup [kind : {"subQueries"}, n : 0..MaxSubQ]

\* a decomposeQuery whose request error handler rejects, as those of the
\* other calls do
decomposeQueryRejects(query, resp) ==
    CASE resp.kind = "subQueries" ->
             [settled |-> "resolved", usable |-> TRUE, items |-> ModelSubQueries(resp.n)]
      [] resp.kind = "notArray" ->
             [settled |-> "resolved", usable |-> FALSE, items |-> <<>>]
      [] resp.kind = "requestError" ->
             [settled |-> "rejected", usable |-> FALSE, items |-> <<>>]
      [] OTHER -> [settled |-> "resolved", usable |-> TRUE, items |-> Fallback(query)]

\* decomposeQuery resolves on every path (lines 541-568); usable = FALSE stands
\* for a resolved value on which subQueries.map(...) of the handler throws
decomposeQuery(query, resp) ==
    CASE resp.kind = "subQueries" /\ resp.n > 0 ->
             [settled |-> "resolved", usable |-> TRUE, items |-> ModelSubQueries(resp.n)]
      [] resp.kind = "subQueries" /\ resp.n = 0 ->
             \* an empty array is truthy: parsed.subQueries || fallback keeps it
             [settled |-> "resolved", usable |-> TRUE, items |-> <<>>]
      [] resp.kind = "notArray" ->
             [settled |-> "resolved", usable |-> FALSE, items |-> <<>>]
      [] OTHER -> [settled |-> "resolved", usable |-> TRUE, items |-> Fallback(query)]

\* what the transport of the embedding call delivers
EmbeddingResponses ==
    [kind : {"requestError"}, status : {0}, body : {"none"}]
    \cup [kind : {"response"}, status : {200, 500}, body : {"vector", "noVector", "notJson"}]

\* generateEmbedding resolves exactly when the body parses and has an embedding
\* field (the status code is not looked at); otherwise it rejects
EmbeddingResolves(resp) == resp.kind = "response" /\ resp.body = "vector"

\* how the promise of generateEmbedding settles (lines 426-444)
generateEmbedding(resp) ==
    [settled |-> IF EmbeddingResolves(resp) THEN "resolved" ELSE "rejected"]

\* the result lists the index returns to a run: no hit, or one document, the
\* first or the last, with the lowest or the highest score (longer lists are
\* ranked under SpecRank)
ResultLists ==
    {<<>>} \cup {<<h>> : h \in {g \in Hits : /\ g.id \in {1, MaxId}
                                             /\ g.relevanceScore \in {0, MaxScore}}}

\* what makeSignedRequest delivers to searchDocuments
SearchResponses ==
    [kind : {"requestError"}, status : {0}, data : {"none"}, hits : {<<>>}]
    \cup [kind : {"response"}, status : {500}, data : {"error"}, hits : {<<>>}]
    \cup [kind : {"response"}, status : {500}, data : {"hits"},
          hits : {<<[id |-> 1, relevanceScore |-> MaxScore]>>}]
    \cup [kind : {"response"}, status : {200}, data : {"noHits", "null"}, hits : {<<>>}]
    \cup [kind : {"response"}, status : {200}, data : {"hits"}, hits : ResultLists]

\* searchDocuments: [] on a rejected request, on a status other than 200 and
\* on a body without hits.hits (or on which reading it throws); else the hits
searchDocuments(resp) ==
    IF resp.kind = "response" /\ resp.status = 200 /\ resp.data = "hits"
    THEN resp.hits
    ELSE <<>>

\* a searchDocuments whose catch block lets the failure of the request through
searchOutcomeRethrows(resp) ==
    IF resp.kind = "requestError"
    THEN [settled |-> "rejected", value |-> <<>>]
    ELSE [settled |-> "resolved", value |-> searchDocuments(resp)]

\* how the promise of searchDocuments settles: the try/catch of lines 610-640
\* turns every failure into a returned []
searchOutcome(resp) == [settled |-> "resolved", value |-> searchDocuments(resp)]

\* an error message without the body text
ClaudeErrorStatusOnly(status, errorData) == "Claude API error: " \o ToString(status)

\* `Claude API error: ${res.statusCode} - ${errorData}`
ClaudeErrorMessage(status, errorData) ==
    "Claude API error: " \o ToString(status) \o " - " \o errorData

-----------------------------------------------------------------------------
(* handleRegulatorySearch *)

\* a test that lets the empty string through
QueryUndefined(query) == query = "absent"

\* !query
QueryMissing(query) == query \in {"absent", ""}

\* sub-queries that all get the id of the first
WithOneId(subQueries) ==
    [i \in 1..Len(subQueries) |->
        [id |-> 0, query |-> subQueries[i].query,
         intent |-> subQueries[i].intent, status |-> "pending"]]

\* the id `sq-${i}` is modelled by i
WithIds(subQueries) ==
    [i \in 1..Len(subQueries) |->
        [id |-> i - 1, query |-> subQueries[i].query,
         intent |-> subQueries[i].intent, status |-> "pending"]]

\* res.end() followed by return (or by the end of the function)
Return(evs) ==
    /\ events' = evs
    /\ ended' = TRUE
    /\ pc' = "returned"
    /\ call' = "none"

\* a catch block that reports nothing
CatchSilent(evs, message) ==
    /\ Return(evs)
    /\ UNCHANGED <<request, subQueriesWithIds, sqIndex, resultLists, allSources,
                   uniqueSources, topSources, streamStatus, chunkCount, callLog>>

\* the catch block of lines 787-790 and the res.end() of line 792
Catch(evs, message) ==
    /\ Return(evs \o <<CatchEvent(message)>>)
    /\ UNCHANGED <<request, subQueriesWithIds, sqIndex, resultLists, allSources,
                   uniqueSources, topSources, streamStatus, chunkCount, callLog>>

\* an entry of the log of started calls; id is the sub-query's, -1 for the
\* calls that are not made for a sub-query
StartedCall(name, id) == [name |-> name, id |-> id]

\* a decomposition that is not skipped
NeverSkipDecompose(sources_only) == FALSE

\* line 685: decomposition is skipped in sources_only mode
SkipDecompose(sources_only) == sources_only

\* the subQueryStatus events are sent only in full mode (lines 706, 718, 723)
StatusEvents(sources_only, ev) == IF sources_only THEN <<>> ELSE <<ev>>

\* a loop that reports the sources of each sub-query as soon as it has them
GatheredEventsWithSources(sources_only, id, results) ==
    StatusEvents(sources_only, CompleteEvent(id, Len(results)))
        \o <<SourcesEvent(results)>>

\* lines 718-720: what the loop sends once a sub-query's results are gathered
GatheredEvents(sources_only, id, results) ==
    StatusEvents(sources_only, CompleteEvent(id, Len(results)))

\* a search stage that completes without sending the sources
SearchCompleteNoSources(top) == <<StepEvent("search", "complete")>>

\* a search stage that is never reported complete
SearchNeverCompleted(top) == <<SourcesEvent(top)>>

\* lines 742-743
SearchCompleteEvents(top) == <<SourcesEvent(top), StepEvent("search", "complete")>>

\* a no-documents branch without its return: the handler goes on to the stream
NoDocumentsFallThrough(evs) ==
    /\ events' = evs \o <<AnswerChunkEvent(NoDocsText),
                          StepEvent("synthesize", "complete"), DoneEvent>>
    /\ ended' = TRUE
    /\ pc' = "stream"
    /\ call' = "sent"

\* lines 755-761
NoDocuments(evs) ==
    Return(evs \o <<AnswerChunkEvent(NoDocsText),
                    StepEvent("synthesize", "complete"), DoneEvent>>)

\* lines 729-785 up to the await of streamClaude: dedup, rank, sources, and
\* the end of the run in sources_only mode or without sources
RankAndAnswer(evs, lists) ==
    LET all == Flatten(lists)
        unique == SortByRelevance(Dedupe(all))
        top == Slice(unique)
        evs2 == evs \o SearchCompleteEvents(top)
        evs3 == evs2 \o <<StepEvent("synthesize", "active")>>
    IN  /\ allSources' = all
        /\ uniqueSources' = unique
        /\ topSources' = top
        /\ resultLists' = lists
        /\ IF request.sources_only
           THEN Return(evs2 \o <<DoneEvent>>) /\ UNCHANGED callLog
           ELSE IF Len(top) = 0 THEN NoDocuments(evs3) /\ UNCHANGED callLog
           ELSE /\ events' = evs3
                /\ ended' = FALSE
                /\ pc' = "stream"
                /\ call' = "sent"
                /\ callLog' = Append(callLog, StartedCall("streamClaude", -1))

\* one turn of the for loop of line 705 up to the await of generateEmbedding,
\* or what follows the loop when it is over
SearchLoop(evs, sqs, i, lists) ==
    /\ subQueriesWithIds' = sqs
    /\ UNCHANGED <<request, streamStatus, chunkCount>>
    /\ IF i <= Len(sqs)
       THEN /\ events' = evs \o StatusEvents(request.sources_only, SearchingEvent(sqs[i].id))
            /\ sqIndex' = i
            /\ resultLists' = lists
            /\ allSources' = Flatten(lists)
            /\ pc' = "embed"
            /\ call' = "sent"
            /\ callLog' = Append(callLog, StartedCall("generateEmbedding", sqs[i].id))
            /\ UNCHANGED <<ended, uniqueSources, topSources>>
       ELSE /\ sqIndex' = i
            /\ RankAndAnswer(evs, lists)

\* a loop without its try/catch: the failure of a sub-query reaches the outer catch
InnerCatchRethrows(message) == Catch(events, message)

\* a catch block that tries the same sub-query again
InnerCatchRetries(message) ==
    SearchLoop(events, subQueriesWithIds, sqIndex, resultLists)

\* lines 721-726: the catch block inside the loop reports the sub-query as
\* complete with no result, and the loop goes on
InnerCatch(message) ==
    SearchLoop(events \o StatusEvents(request.sources_only,
                   CompleteEvent(subQueriesWithIds[sqIndex].id, 0)),
               subQueriesWithIds, sqIndex + 1, resultLists)

\* lines 662-680: the body is read and parsed, the query is checked, the
\* analyze step starts its 100 ms pause
ReceiveRequest ==
    /\ pc = "start"
    /\ CASE request.body = "invalid" -> Catch(events, "Unexpected end of JSON input")
         [] request.body = "null" -> Catch(events, "Cannot destructure property 'query'")
         [] OTHER ->
              IF QueryMissing(request.query)
              THEN /\ Return(events \o <<ErrorEvent("Query is required")>>)
                   /\ UNCHANGED <<request, subQueriesWithIds, sqIndex, resultLists,
                                  allSources, uniqueSources, topSources, streamStatus,
                                  chunkCount, callLog>>
              ELSE /\ events' = events \o <<StepEvent("analyze", "active")>>
                   /\ pc' = "analyze"
                   /\ UNCHANGED <<request, ended, subQueriesWithIds, sqIndex, resultLists,
                                  allSources, uniqueSources, topSources, call,
                                  streamStatus, chunkCount, callLog>>
    /\ UNCHANGED <<lastCall, connected, decoderVars, unitVars>>

\* lines 681-702: the pause is over; decomposition is started or skipped
AnalyzeElapsed ==
    /\ pc = "analyze"
    /\ LET evs == events \o <<StepEvent("analyze", "complete")>>
       IN  IF SkipDecompose(request.sources_only)
           THEN SearchLoop(evs \o <<StepEvent("search", "active")>>,
                           WithIds(Fallback(request.query)), 1, <<>>)
           ELSE /\ events' = evs \o <<StepEvent("decompose", "active")>>
                /\ pc' = "decompose"
                /\ call' = "sent"
                /\ callLog' = Append(callLog, StartedCall("decomposeQuery", -1))
                /\ UNCHANGED <<request, ended, subQueriesWithIds, sqIndex, resultLists,
                               allSources, uniqueSources, topSources, streamStatus,
                               chunkCount>>
    /\ UNCHANGED <<lastCall, connected, decoderVars, unitVars>>

\* lines 690-702: decomposeQuery has resolved
DecomposeSettled ==
    /\ pc = "decompose"
    /\ call = "sent"
    /\ \E resp \in DecomposeResponses :
         LET value == decomposeQuery(request.query, resp)
             sqs == WithIds(value.items)
         IN  /\ lastCall' = [name |-> "decomposeQuery", id |-> -1, response |-> resp,
                             settled |-> value.settled, value |-> value.items]
             /\ IF value.settled = "rejected"
                THEN Catch(events, "socket hang up")
                ELSE IF ~value.usable
                THEN Catch(events, "subQueries.map is not a function")
                ELSE SearchLoop(events \o <<SubQueriesEvent(sqs),
                                            StepEvent("decompose", "complete"),
                                            StepEvent("search", "active")>>,
                                sqs, 1, <<>>)
    /\ UNCHANGED <<connected, decoderVars, unitVars>>

\* lines 712-726: generateEmbedding has settled
EmbeddingSettled ==
    /\ pc = "embed"
    /\ call = "sent"
    /\ \E resp \in EmbeddingResponses :
         LET outcome == generateEmbedding(resp)
             id == subQueriesWithIds[sqIndex].id
         IN  /\ lastCall' = [name |-> "generateEmbedding", id |-> id, response |-> resp,
                             settled |-> outcome.settled, value |-> <<>>]
             /\ IF outcome.settled = "resolved"
                THEN /\ pc' = "search"
                     /\ callLog' = Append(callLog, StartedCall("searchDocuments", id))
                     /\ UNCHANGED <<request, events, ended, subQueriesWithIds, sqIndex,
                                    resultLists, allSources, uniqueSources, topSources,
                                    call, streamStatus, chunkCount>>
                ELSE InnerCatch("Failed to generate Titan embedding")
    /\ UNCHANGED <<connected, decoderVars, unitVars>>

\* lines 715-720: searchDocuments has resolved
SearchSettled ==
    /\ pc = "search"
    /\ call = "sent"
    /\ \E resp \in SearchResponses :
         LET outcome == searchOutcome(resp)
             results == outcome.value
             id == subQueriesWithIds[sqIndex].id
         IN  /\ lastCall' = [name |-> "searchDocuments", id |-> id, response |-> resp,
                             settled |-> outcome.settled, value |-> results]
             /\ IF outcome.settled = "resolved"
                THEN SearchLoop(events \o GatheredEvents(request.sources_only, id, results),
                                subQueriesWithIds, sqIndex + 1,
                                Append(resultLists, results))
                ELSE InnerCatch("socket hang up")
    /\ UNCHANGED <<connected, decoderVars, unitVars>>

-----------------------------------------------------------------------------
(* streamClaude, as driven by the transport *)

\* line 236: the response callback
StreamResponse ==
    /\ pc = "stream"
    /\ call = "sent"
    /\ \E status \in {200, 403} :
         /\ streamStatus' = status
         /\ call' = IF status # 200 THEN "errbody" ELSE "open"
    /\ UNCHANGED <<request, pc, events, ended, subQueriesWithIds, sqIndex, resultLists,
                   allSources, uniqueSources, topSources, chunkCount>>
    /\ UNCHANGED <<lastCall, callLog, connected, decoderVars, unitVars>>

\* lines 253-328 and 780-782: a data chunk completes zero or one frame with a
\* delta text, which onChunk sends as an answerChunk
StreamData ==
    /\ pc = "stream"
    /\ call = "open"
    /\ chunkCount < MaxChunks
    /\ \E texts \in {<<>>} \cup {<<t>> : t \in Fragments} :
         /\ events' = events \o [i \in 1..Len(texts) |-> AnswerChunkEvent(texts[i])]
         /\ forwarded' = forwarded \o texts
         /\ fullContent' = fullContent \o Join(texts)
    /\ chunkCount' = chunkCount + 1
    /\ UNCHANGED <<request, pc, ended, subQueriesWithIds, sqIndex, resultLists,
                   allSources, uniqueSources, topSources, call, streamStatus>>
    /\ UNCHANGED <<lastCall, callLog, connected, wire, fed, buffer, hung, eventTypes,
                   unitVars>>

\* lines 330-333 and 784-792: the stream ends, streamClaude resolves
\* lines 243-246 and 787-792: the error body ends, streamClaude rejects
StreamEnd ==
    /\ pc = "stream"
    /\ \/ /\ call = "open"
          /\ Return(events \o <<StepEvent("synthesize", "complete"), DoneEvent>>)
          /\ lastCall' = [name |-> "streamClaude", id |-> -1,
                          response |-> [kind |-> "end", status |-> streamStatus],
                          settled |-> "resolved", value |-> fullContent]
          /\ UNCHANGED <<request, subQueriesWithIds, sqIndex, resultLists, allSources,
                         uniqueSources, topSources, streamStatus, chunkCount, callLog>>
       \/ /\ call = "errbody"
          /\ \E errorData \in {"", "denied"} :
               /\ Catch(events, ClaudeErrorMessage(streamStatus, errorData))
               /\ lastCall' = [name |-> "streamClaude", id |-> -1,
                               response |-> [kind |-> "errorBody", status |-> streamStatus,
                                             errorData |-> errorData],
                               settled |-> "rejected", value |-> <<>>]
    /\ UNCHANGED <<connected, decoderVars, unitVars>>

\* lines 336-339 and 787-792: the request fails, streamClaude rejects
StreamRequestError ==
    /\ pc = "stream"
    /\ call \in {"sent", "open", "errbody"}
    /\ \E message \in ErrorMessages :
         /\ Catch(events, message)
         /\ lastCall' = [name |-> "streamClaude", id |-> -1,
                         response |-> [kind |-> "requestError", message |-> message],
                         settled |-> "rejected", value |-> <<>>]
    /\ UNCHANGED <<connected, decoderVars, unitVars>>

\* a response that never arrives, stalls, or is cut off before its end event:
\* none of the calls sets a timeout or listens for aborted/close/error on the
\* response, so nothing more is delivered to the code
TransportStall ==
    /\ call \in {"sent", "open", "errbody"}
    /\ call' = "stalled"
    /\ UNCHANGED <<request, pc, events, ended, subQueriesWithIds, sqIndex, resultLists,
                   allSources, uniqueSources, topSources, streamStatus, chunkCount>>
    /\ UNCHANGED <<lastCall, callLog, connected, decoderVars, unitVars>>

-----------------------------------------------------------------------------
(* Specification of one run *)

Init ==
    /\ request \in {r \in Requests :
                      r.body # "object" => (r.query = "absent" /\ ~r.sources_only)}
    /\ pc = "start"
    /\ events = <<>>
    /\ ended = FALSE
    /\ subQueriesWithIds = <<>>
    /\ sqIndex = 0
    /\ resultLists = <<>>
    /\ allSources = <<>>
    /\ uniqueSources = <<>>
    /\ topSources = <<>>
    /\ call = "none"
    /\ streamStatus = 0
    /\ chunkCount = 0
    /\ lastCall = [name |-> "none"]
    /\ callLog = <<>>
    /\ connected = TRUE
    /\ DecoderIdle
    /\ ExtractIdle
    /\ SignIdle
    /\ CorsIdle
    /\ InvokeIdle
    /\ ProxyIdle

Next ==
    \/ ReceiveRequest
    \/ AnalyzeElapsed
    \/ DecomposeSettled
    \/ EmbeddingSettled
    \/ SearchSettled
    \/ StreamResponse
    \/ StreamData
    \/ StreamEnd
    \/ StreamRequestError
    \/ TransportStall

Spec == Init /\ [][Next]_vars

\* every step of the handler and every event of a transport that has not
\* stalled eventually happens
LiveSpec == Spec /\ WF_vars(Next)

\* The caller closes its connection while the handler is running. The handler
\* registers no listener for it on req or res and holds no handle on the
\* requests it has sent: nothing but the connection changes. The
\* disconnections followed are those of the search stage and of the answer
\* stream.
ClientDisconnect ==
    /\ connected
    /\ pc \in {"embed", "search", "stream"}
    /\ connected' = FALSE
    /\ UNCHANGED <<request, pc, events, ended, subQueriesWithIds, sqIndex, resultLists,
                   allSources, uniqueSources, topSources, call, streamStatus, chunkCount,
                   lastCall, callLog, decoderVars, unitVars>>

NextDisconnect == Next \/ ClientDisconnect

\* the runs of the handler, with callers that may go away
SpecDisconnect == Init /\ [][NextDisconnect]_vars

-----------------------------------------------------------------------------
(* Specification of the dedup-and-rank stage on its own: the search loop is *)
(* over with three gathered result lists, the first and the last of at most *)
(* one hit, the second a page of up to MaxBulk documents                     *)

\* a page of b distinct documents, not in score order, with repeated scores
Page(b) == [k \in 1..b |-> [id |-> k, relevanceScore |-> k % (MaxScore + 1)]]

\* no hit, or any one hit
ShortLists == {<<>>} \cup {<<h>> : h \in Hits}

RankInputs == {<<s1, Page(b), s2>> : s1 \in ShortLists, b \in 0..MaxBulk, s2 \in ShortLists}

InitRank ==
    /\ request = [body |-> "object", query |-> "q", sources_only |-> TRUE]
    /\ pc = "rank"
    /\ events = <<>>
    /\ ended = FALSE
    /\ subQueriesWithIds = <<>>
    /\ sqIndex = 0
    /\ resultLists \in RankInputs
    /\ allSources = <<>>
    /\ uniqueSources = <<>>
    /\ topSources = <<>>
    /\ call = "none"
    /\ streamStatus = 0
    /\ chunkCount = 0
    /\ lastCall = [name |-> "none"]
    /\ callLog = <<>>
    /\ connected = TRUE
    /\ DecoderIdle
    /\ ExtractIdle
    /\ SignIdle
    /\ CorsIdle
    /\ InvokeIdle
    /\ ProxyIdle

\* lines 729-750 applied to the gathered lists
Rank ==
    /\ pc = "rank"
    /\ RankAndAnswer(events, resultLists)
    /\ UNCHANGED <<request, subQueriesWithIds, sqIndex, streamStatus, chunkCount>>
    /\ UNCHANGED <<lastCall, connected, decoderVars, unitVars>>

NextRank == Rank

SpecRank == InitRank /\ [][NextRank]_vars

-----------------------------------------------------------------------------
(* The frame decoder of streamClaude (lines 250-328), byte by byte.  A frame *)
(* is a 12-byte prelude (total length, headers length, prelude CRC), the     *)
(* headers, the payload and a 4-byte message CRC; the decoder checks neither *)
(* CRC.                                                                      *)

\* Buffer.readUInt8/16BE/32BE at a 0-based offset throw a RangeError unless
\* the bytes read lie inside the buffer
InRange(b, offset, n) == offset + n <= Len(b)
readUInt8(b, offset) == b[offset + 1]
readUInt16BE(b, offset) == b[offset + 1] * 256 + b[offset + 2]
readUInt32BE(b, offset) ==
    b[offset + 1] * 16777216 + b[offset + 2] * 65536 + b[offset + 3] * 256 + b[offset + 4]

\* Buffer.slice(start, end), 0-based, end excluded and clamped to the length
slice(b, start, end) == SubSeq(b, start + 1, Min(end, Len(b)))

\* toString('utf8') of the names and values of the headers: the byte 101
\* stands for the name :event-type, 99 for the value contentBlockDelta
HeaderText(bytes) ==
    CASE bytes = <<101>> -> ":event-type"
      [] bytes = <<99>> -> "contentBlockDelta"
      [] OTHER -> "other"

\* the loop over the headers (lines 280-300): status "ok" when it ends or
\* breaks on a value type other than 7, "threw" when a read leaves the
\* message; eventType is the value it has read for :event-type, "" if none
\* (nothing after the loop uses it)
RECURSIVE HeaderLoop(_, _, _, _)
HeaderLoop(message, headerOffset, headersEnd, eventType) ==
    IF headerOffset >= headersEnd THEN [status |-> "ok", eventType |-> eventType]
    ELSE IF ~InRange(message, headerOffset, 1) THEN [status |-> "threw", eventType |-> ""]
    ELSE LET nameLength == readUInt8(message, headerOffset)
             typeOffset == headerOffset + 1 + nameLength
             name == slice(message, headerOffset + 1, typeOffset)
         IN  IF ~InRange(message, typeOffset, 1) THEN [status |-> "threw", eventType |-> ""]
             ELSE IF readUInt8(message, typeOffset) # 7
             THEN [status |-> "ok", eventType |-> eventType]
             ELSE IF ~InRange(message, typeOffset + 1, 2)
             THEN [status |-> "threw", eventType |-> ""]
             ELSE LET valueLength == readUInt16BE(message, typeOffset + 1)
                      value == slice(message, typeOffset + 3, typeOffset + 3 + valueLength)
                  IN  HeaderLoop(message, typeOffset + 3 + valueLength, headersEnd,
                                 IF HeaderText(name) = ":event-type"
                                 THEN HeaderText(value) ELSE eventType)

\* the eventType the header loop has read for one extracted message
EventTypeRead(message) ==
    IF ~InRange(message, 4, 4) THEN ""
    ELSE HeaderLoop(message, 12, 12 + readUInt32BE(message, 4), "").eventType

\* The payloads told apart.  <<123, c, 125>> stands for the JSON text
\* {"contentBlockDelta":{"delta":{"text":T}}} with T the fragment that c
\* names, <<123, 125>> for a JSON text without contentBlockDelta; every other
\* payload is one on which JSON.parse throws.
\* (48 names the empty text.)
TextOf(c) == CASE c = 97 -> "alpha" [] c = 98 -> "beta" [] OTHER -> ""
IsDelta(payload) == Len(payload) = 3 /\ payload[1] = 123 /\ payload[2] \in {48, 97, 98}
                        /\ payload[3] = 125
IsJson(payload) == payload = <<123, 125>> \/ IsDelta(payload)

\* a callback that forwards the empty text too
JsonTextForwardsEmpty(payload) ==
    IF IsDelta(payload) THEN <<TextOf(payload[2])>> ELSE <<>>

\* lines 308-320: the texts passed to onChunk for a payload; an empty text
\* is falsy and is not forwarded
JsonText(payload) ==
    IF IsDelta(payload) /\ TextOf(payload[2]) # "" THEN <<TextOf(payload[2])>> ELSE <<>>

\* lines 273-323: the texts passed to onChunk for one extracted message; an
\* exception of the header reads is caught by the outer try
ParseMessage(message, totalLength) ==
    IF ~InRange(message, 4, 4) THEN <<>>
    ELSE LET headersEnd == 12 + readUInt32BE(message, 4)
         IN  IF HeaderLoop(message, 12, headersEnd, "").status = "threw" THEN <<>>
             ELSE LET payload == slice(message, headersEnd, totalLength - 4)
                  IN  IF Len(payload) > 0 THEN JsonText(payload) ELSE <<>>

\* a loop that stops at a message whose payload is not JSON
RECURSIVE DecodeLoopStopsAtBadPayload(_, _, _)
DecodeLoopStopsAtBadPayload(buf, out, types) ==
    LET stop == [buffer |-> buf, texts |-> out, types |-> types, hung |-> FALSE]
    IN  IF Len(buf) < 12 THEN stop
        ELSE LET totalLength == readUInt32BE(buf, 0)
                 message == slice(buf, 0, totalLength)
                 payload == slice(message, 12 + readUInt32BE(message, 4), totalLength - 4)
             IN  IF Len(buf) < totalLength THEN stop
                 ELSE IF totalLength = 0 THEN [stop EXCEPT !.hung = TRUE]
                 ELSE IF Len(payload) > 0 /\ ~IsJson(payload)
                 THEN [stop EXCEPT !.buffer = slice(buf, totalLength, Len(buf))]
                 ELSE DecodeLoopStopsAtBadPayload(slice(buf, totalLength, Len(buf)),
                                                  out \o ParseMessage(message, totalLength),
                                                  Append(types, EventTypeRead(message)))

\* the while loop of lines 257-327 on the buffer: what is left in the
\* buffer, the texts passed to onChunk and the eventType read for each
\* message extracted.  With a total length of 0 nothing is consumed, every
\* iteration ends in the catch of line 324 and the loop never exits (hung).
RECURSIVE DecodeLoop(_, _, _)
DecodeLoop(buf, out, types) ==
    LET stop == [buffer |-> buf, texts |-> out, types |-> types, hung |-> FALSE]
    IN  IF Len(buf) < 12 THEN stop
        ELSE LET totalLength == readUInt32BE(buf, 0)
                 message == slice(buf, 0, totalLength)
             IN  IF Len(buf) < totalLength THEN stop
                 ELSE IF totalLength = 0 THEN [stop EXCEPT !.hung = TRUE]
                 ELSE DecodeLoop(slice(buf, totalLength, Len(buf)),
                                 out \o ParseMessage(message, totalLength),
                                 Append(types, EventTypeRead(message)))

\* a data callback that decodes each chunk on its own
NoConcat(buf, chunk) == chunk

\* Buffer.concat([buffer, chunk]), line 254
Concat(buf, chunk) == buf \o chunk

\* the 'data' callback of lines 253-328
OnData(buf, chunk) == DecodeLoop(Concat(buf, chunk), <<>>, <<>>)

\* --- the frames the model host sends ---

UInt32BE(n) == <<n \div 16777216, (n \div 65536) % 256, (n \div 256) % 256, n % 256>>

Frame(headers, payload) ==
    UInt32BE(12 + Len(headers) + Len(payload) + 4) \o UInt32BE(Len(headers))
        \o <<0, 0, 0, 0>> \o headers \o payload \o <<0, 0, 0, 0>>

\* one header: a name of one byte, value type 7 (string), a value of one byte
StringHeader == <<1, 101, 7, 0, 1, 99>>

AlphaFrame == Frame(StringHeader, <<123, 97, 125>>)
BetaFrame == Frame(<<>>, <<123, 98, 125>>)
OtherFrame == Frame(StringHeader, <<123, 125>>)
CorruptFrame == Frame(StringHeader, <<123, 97>>)
EmptyFrame == Frame(<<>>, <<>>)
EmptyTextFrame == Frame(StringHeader, <<123, 48, 125>>)

Frames == {AlphaFrame, BetaFrame, OtherFrame, CorruptFrame, EmptyFrame, EmptyTextFrame}

\* the responses: up to MaxFrames complete frames
Wires == UNION {[1..n -> Frames] : n \in 0..MaxFrames}

\* the bytes of the response
WireBytes == Flatten(wire)

\* Specification of the decoder on its own: the host has answered 200 and
\* its frames arrive cut into data events at arbitrary places
InitDecode ==
    /\ request = [body |-> "object", query |-> "q", sources_only |-> FALSE]
    /\ pc = "decode"
    /\ events = <<>>
    /\ ended = FALSE
    /\ subQueriesWithIds = <<>>
    /\ sqIndex = 0
    /\ resultLists = <<>>
    /\ allSources = <<>>
    /\ uniqueSources = <<>>
    /\ topSources = <<>>
    /\ call = "open"
    /\ streamStatus = 200
    /\ chunkCount = 0
    /\ lastCall = [name |-> "none"]
    /\ callLog = <<>>
    /\ connected = TRUE
    /\ wire \in Wires
    /\ fed = 0
    /\ buffer = <<>>
    /\ forwarded = <<>>
    /\ fullContent = ""
    /\ hung = FALSE
    /\ eventTypes = <<>>
    /\ ExtractIdle
    /\ SignIdle
    /\ CorsIdle
    /\ InvokeIdle
    /\ ProxyIdle

\* one 'data' event with the next k bytes
DecodeData ==
    /\ pc = "decode"
    /\ ~hung
    /\ fed < Len(WireBytes)
    /\ \E k \in 1..(Len(WireBytes) - fed) :
         LET r == OnData(buffer, SubSeq(WireBytes, fed + 1, fed + k))
         IN  /\ buffer' = r.buffer
             /\ forwarded' = forwarded \o r.texts
             /\ fullContent' = fullContent \o Join(r.texts)
             /\ hung' = r.hung
             /\ eventTypes' = eventTypes \o r.types
             /\ fed' = fed + k
    /\ UNCHANGED <<request, pc, events, ended, subQueriesWithIds, sqIndex, resultLists,
                   allSources, uniqueSources, topSources, call, streamStatus, chunkCount,
                   lastCall, callLog, connected, wire, unitVars>>

NextDecode == DecodeData

SpecDecode == InitDecode /\ [][NextDecode]_vars

-----------------------------------------------------------------------------
(* The extraction of the JSON object from the model's decomposition answer   *)
(* (decomposeQuery, lines 545-562).  The text is a sequence of symbols: "{"  *)
(* and "}" are the braces, "K" stands for the text "subQueries":[ , "E" for  *)
(* the ] that closes the array, "p" for any other character (prose, a code   *)
(* fence).                                                                   *)

Symbols == {"{", "}", "K", "E", "p"}

Contents == UNION {[1..n -> Symbols] : n \in 0..MaxText}

\* the positions of a symbol in a text
Positions(text, symbol) == {i \in 1..Len(text) : text[i] = symbol}

Lowest(S) == CHOOSE i \in S : \A j \in S : i <= j
Highest(S) == CHOOSE i \in S : \A j \in S : i >= j

\* content.match(/\{[\s\S]*\}/): the leftmost match starts at the first "{"
\* that has a "}" after it, and the greedy star takes it to the last "}";
\* <<>> stands for null (a match is never empty)
Match(text) ==
    LET opens == {i \in Positions(text, "{") : \E j \in Positions(text, "}") : j > i}
    IN  IF opens = {} THEN <<>>
        ELSE SubSeq(text, Lowest(opens), Highest(Positions(text, "}")))

\* JSON.parse on the texts these symbols can spell: an object without
\* subQueries, an object whose subQueries array has no entry or one entry
\* {}; on every other text it throws
JsonParse(text) ==
    CASE text = <<"{", "}">> -> [kind |-> "noSubQueries", n |-> 0]
      [] text = <<"{", "K", "E", "}">> -> [kind |-> "subQueries", n |-> 0]
      [] text = <<"{", "K", "{", "}", "E", "}">> -> [kind |-> "subQueries", n |-> 1]
      [] OTHER -> [kind |-> "textNotJson", n |-> 0]

\* lines 545-562 on the text of the answer: what the answer amounts to for
\* decomposeQuery
ContentResponse(text) ==
    IF text = <<>> THEN [kind |-> "noContent", n |-> 0]
    ELSE JsonParse(IF Match(text) # <<>> THEN Match(text) ELSE text)

\* Specification of the extraction on its own
InitExtract ==
    /\ request = [body |-> "object", query |-> "q", sources_only |-> FALSE]
    /\ pc = "extract"
    /\ events = <<>>
    /\ ended = FALSE
    /\ subQueriesWithIds = <<>>
    /\ sqIndex = 0
    /\ resultLists = <<>>
    /\ allSources = <<>>
    /\ uniqueSources = <<>>
    /\ topSources = <<>>
    /\ call = "sent"
    /\ streamStatus = 0
    /\ chunkCount = 0
    /\ lastCall = [name |-> "none"]
    /\ callLog = <<>>
    /\ connected = TRUE
    /\ DecoderIdle
    /\ content \in Contents
    /\ resolved = <<>>
    /\ SignIdle
    /\ CorsIdle
    /\ InvokeIdle
    /\ ProxyIdle

\* the 'end' callback of the decomposition call on a response whose text is
\* content
Extract ==
    /\ pc = "extract"
    /\ resolved' = decomposeQuery(request.query, ContentResponse(content))
    /\ pc' = "extracted"
    /\ UNCHANGED <<request, events, ended, subQueriesWithIds, sqIndex, resultLists,
                   allSources, uniqueSources, topSources, call, streamStatus, chunkCount,
                   lastCall, callLog, connected, decoderVars, content, signVars,
                   corsVars, invokeVars, proxyVars>>

NextExtract == Extract

SpecExtract == InitExtract /\ [][NextExtract]_vars

-----------------------------------------------------------------------------
(* signRequest (lines 34-102).  Strings are built as the code builds them;   *)
(* a digest is written as the text of the call that makes it, so that two    *)
(* digests are equal exactly when the hashed inputs are (no collisions).     *)

\* CONFIG, lines 21-29
AWS_REGION == "us-east-1"
AWS_ACCESS_KEY_ID == "AKID"
AWS_SECRET_ACCESS_KEY == "SECRET"

\* crypto.createHash('sha256').update(x).digest('hex')
sha256(x) == "sha256(" \o x \o ")"

\* crypto.createHmac('sha256', key).update(x).digest()
hmac(key, x) == "hmac(" \o key \o "," \o x \o ")"

\* method.toUpperCase()
toUpperCase(method) ==
    CASE method = "post" -> "POST"
      [] method = "get" -> "GET"
      [] OTHER -> method

\* body || ''
BodyText(body) == IF body = "absent" THEN "" ELSE body

\* the readings of the clock: datetime is date followed by time, date its
\* first 8 characters
Clock == {[date |-> "20260101", time |-> "T000000Z"],
          [date |-> "20260102", time |-> "T000000Z"]}

\* the parsed urls: host and pathname
Urls == {[host |-> "a.aoss.amazonaws.com", pathname |-> "/idx/_search"],
         [host |-> "b.aoss.amazonaws.com", pathname |-> "/idx/_search"]}

Methods == {"POST", "post"}
Bodies == {"", "{}", "{\"size\":5}"}
Services == {"aoss", "bedrock"}

SignArgs == [method : Methods, url : Urls, body : Bodies, service : Services, now : Clock]

\* lines 39, 42-47
bodyHash(a) == sha256(BodyText(a.body))
datetime(a) == a.now.date \o a.now.time

\* lines 49-56: the four headers in sorted order (their values hold no
\* surrounding blanks, so trim() leaves them as they are)
canonicalHeaders(a) ==
    "content-type:application/json\n" \o "host:" \o a.url.host \o "\n"
        \o "x-amz-content-sha256:" \o bodyHash(a) \o "\n"
        \o "x-amz-date:" \o datetime(a)
signedHeaders == "content-type;host;x-amz-content-sha256;x-amz-date"

\* a canonical request that leaves the body hash out
canonicalRequestWithoutBody(a) ==
    toUpperCase(a.method) \o "\n" \o a.url.pathname \o "\n" \o "" \o "\n"
        \o "content-type:application/json\n" \o "host:" \o a.url.host \o "\n"
        \o "x-amz-date:" \o datetime(a) \o "\n" \o "\n" \o signedHeaders

\* lines 68-75
canonicalRequest(a) ==
    toUpperCase(a.method) \o "\n" \o a.url.pathname \o "\n" \o "" \o "\n"
        \o canonicalHeaders(a) \o "\n" \o "\n" \o signedHeaders \o "\n" \o bodyHash(a)

\* lines 80-88
credentialScope(a) == a.now.date \o "/" \o AWS_REGION \o "/" \o a.service \o "/aws4_request"
stringToSign(a) ==
    "AWS4-HMAC-SHA256\n" \o datetime(a) \o "\n" \o credentialScope(a) \o "\n"
        \o sha256(canonicalRequest(a))

\* lines 93-97
signature(a) ==
    LET kDate == hmac("AWS4" \o AWS_SECRET_ACCESS_KEY, a.now.date)
        kRegion == hmac(kDate, AWS_REGION)
        kService == hmac(kRegion, a.service)
        kSigning == hmac(kService, "aws4_request")
    IN  hmac(kSigning, stringToSign(a))

\* lines 100, 104: the header map returned
signRequest(a) ==
    [h \in {"content-type", "host", "x-amz-content-sha256", "x-amz-date", "authorization"} |->
        CASE h = "content-type" -> "application/json"
          [] h = "host" -> a.url.host
          [] h = "x-amz-content-sha256" -> bodyHash(a)
          [] h = "x-amz-date" -> datetime(a)
          [] OTHER -> "AWS4-HMAC-SHA256 Credential=" \o AWS_ACCESS_KEY_ID \o "/"
                          \o credentialScope(a) \o ", SignedHeaders=" \o signedHeaders
                          \o ", Signature=" \o signature(a)]

\* Specification of two signings
InitSign ==
    /\ request = [body |-> "object", query |-> "q", sources_only |-> FALSE]
    /\ pc = "sign"
    /\ events = <<>>
    /\ ended = FALSE
    /\ subQueriesWithIds = <<>>
    /\ sqIndex = 0
    /\ resultLists = <<>>
    /\ allSources = <<>>
    /\ uniqueSources = <<>>
    /\ topSources = <<>>
    /\ call = "none"
    /\ streamStatus = 0
    /\ chunkCount = 0
    /\ lastCall = [name |-> "none"]
    /\ callLog = <<>>
    /\ connected = TRUE
    /\ DecoderIdle
    /\ ExtractIdle
    /\ signInputs \in SignArgs \X SignArgs
    /\ signOutputs = <<>>
    /\ CorsIdle
    /\ InvokeIdle
    /\ ProxyIdle

Sign ==
    /\ pc = "sign"
    /\ signOutputs' = <<signRequest(signInputs[1]), signRequest(signInputs[2])>>
    /\ pc' = "signed"
    /\ UNCHANGED <<request, events, ended, subQueriesWithIds, sqIndex, resultLists,
                   allSources, uniqueSources, topSources, call, streamStatus, chunkCount,
                   lastCall, callLog, connected, decoderVars, content, resolved,
                   signInputs, corsVars, invokeVars, proxyVars>>

NextSign == Sign

SpecSign == InitSign /\ [][NextSign]_vars

-----------------------------------------------------------------------------
(* handleCors (lines 798-809) *)

\* req.method as the http parser hands it over
CorsMethods == {"OPTIONS", "POST", "GET", "PUT", "DELETE", "HEAD", "PATCH"}

\* headers an earlier caller may have set on the response
EarlierHeaders ==
    {<<>>,
     <<[name |-> "Access-Control-Allow-Origin", value |-> "https://example.org"]>>,
     <<[name |-> "Content-Type", value |-> "text/plain"]>>,
     <<[name |-> "Access-Control-Allow-Methods", value |-> "GET"],
       [name |-> "Content-Type", value |-> "text/plain"]>>}

\* res.statusCode before the call: 200 unless set
EarlierStatus == {200, 404, 500}

\* res.setHeader(name, value): replaces the value of a header that is set,
\* adds the header otherwise
setHeader(headers, name, value) ==
    IF \E i \in 1..Len(headers) : headers[i].name = name
    THEN [i \in 1..Len(headers) |->
             IF headers[i].name = name THEN [name |-> name, value |-> value]
             ELSE headers[i]]
    ELSE Append(headers, [name |-> name, value |-> value])

\* res.getHeader(name); "" when the header is not set
getHeader(headers, name) ==
    IF \E i \in 1..Len(headers) : headers[i].name = name
    THEN headers[CHOOSE i \in 1..Len(headers) : headers[i].name = name].value
    ELSE ""

\* a preflight test that takes every method for OPTIONS
IsPreflightAlways(method) == TRUE

\* line 803
IsPreflight(method) == method = "OPTIONS"

InitCors ==
    /\ request = [body |-> "object", query |-> "q", sources_only |-> FALSE]
    /\ pc = "cors"
    /\ events = <<>>
    /\ ended = FALSE
    /\ subQueriesWithIds = <<>>
    /\ sqIndex = 0
    /\ resultLists = <<>>
    /\ allSources = <<>>
    /\ uniqueSources = <<>>
    /\ topSources = <<>>
    /\ call = "none"
    /\ streamStatus = 0
    /\ chunkCount = 0
    /\ lastCall = [name |-> "none"]
    /\ callLog = <<>>
    /\ connected = TRUE
    /\ DecoderIdle
    /\ ExtractIdle
    /\ SignIdle
    /\ req \in [method : CorsMethods]
    /\ res \in [statusCode : EarlierStatus, headers : EarlierHeaders, ended : {FALSE},
                body : {""}]
    /\ returned = "nothing"
    /\ InvokeIdle
    /\ ProxyIdle

\* lines 798-809
handleCors ==
    /\ pc = "cors"
    /\ LET h1 == setHeader(res.headers, "Access-Control-Allow-Origin", "*")
           h2 == setHeader(h1, "Access-Control-Allow-Methods", "POST, OPTIONS")
           h3 == setHeader(h2, "Access-Control-Allow-Headers", "Content-Type")
       IN  IF IsPreflight(req.method)
           THEN /\ res' = [statusCode |-> 200, headers |-> h3, ended |-> TRUE,
                           body |-> res.body]
                /\ returned' = TRUE
           ELSE /\ res' = [res EXCEPT !.headers = h3]
                /\ returned' = FALSE
    /\ pc' = "corsReturned"
    /\ UNCHANGED <<request, events, ended, subQueriesWithIds, sqIndex, resultLists,
                   allSources, uniqueSources, topSources, call, streamStatus, chunkCount,
                   lastCall, callLog, connected, decoderVars, content, resolved,
                   signVars, req, invokeVars, proxyVars>>

NextCors == handleCors

SpecCors == InitCors /\ [][NextCors]_vars

\* --- responses that are not made of well-formed frames only ---

\* a prelude whose total length is 0
ZeroLengthFrame == <<0, 0, 0, 0, 0, 0, 0, 0, 0, 0, 0, 0>>

\* a total length smaller than the prelude, and the bytes it covers
ShortLengthFrame == <<0, 0, 0, 5, 0>>

\* a header of value type 0 (boolean, no value bytes) before the
\* :event-type header, and a payload with a text
MixedHeaderFrame == Frame(<<1, 109, 0>> \o StringHeader, <<123, 97, 125>>)

\* a text frame cut off before its last 4 bytes
TruncatedFrame == SubSeq(AlphaFrame, 1, Len(AlphaFrame) - 4)

RawFrames ==
    {AlphaFrame, BetaFrame, ZeroLengthFrame, ShortLengthFrame, MixedHeaderFrame,
     TruncatedFrame}

RawWires == UNION {[1..n -> RawFrames] : n \in 0..MaxFrames}

\* Specification of the decoder on arbitrary responses
InitDecodeRaw ==
    /\ request = [body |-> "object", query |-> "q", sources_only |-> FALSE]
    /\ pc = "decode"
    /\ events = <<>>
    /\ ended = FALSE
    /\ subQueriesWithIds = <<>>
    /\ sqIndex = 0
    /\ resultLists = <<>>
    /\ allSources = <<>>
    /\ uniqueSources = <<>>
    /\ topSources = <<>>
    /\ call = "open"
    /\ streamStatus = 200
    /\ chunkCount = 0
    /\ lastCall = [name |-> "none"]
    /\ callLog = <<>>
    /\ connected = TRUE
    /\ wire \in RawWires
    /\ fed = 0
    /\ buffer = <<>>
    /\ forwarded = <<>>
    /\ fullContent = ""
    /\ hung = FALSE
    /\ eventTypes = <<>>
    /\ ExtractIdle
    /\ SignIdle
    /\ CorsIdle
    /\ InvokeIdle
    /\ ProxyIdle

SpecDecodeRaw == InitDecodeRaw /\ [][NextDecode]_vars

-----------------------------------------------------------------------------
(* The answer stream: the handler awaiting streamClaude (lines 779-785) while
   the response bytes arrive through the decoder (lines 250-333) *)

\* the one source found for the one sub-query of the run
AnswerHit == [id |-> 1, relevanceScore |-> 0]

\* lines 679-753: what a full run with the fallback sub-query and one hit has
\* sent when it calls streamClaude
AnswerPrefix ==
    <<StepEvent("analyze", "active"), StepEvent("analyze", "complete"),
      StepEvent("decompose", "active"),
      SubQueriesEvent(WithIds(Fallback("q"))),
      StepEvent("decompose", "complete"), StepEvent("search", "active")>>
    \o StatusEvents(FALSE, SearchingEvent(0))
    \o GatheredEvents(FALSE, 0, <<AnswerHit>>)
    \o SearchCompleteEvents(<<AnswerHit>>)
    \o <<StepEvent("synthesize", "active")>>

\* the handler at line 780, the response of status 200 open (line 250) and
\* no byte of it arrived
InitAnswer ==
    /\ request = [body |-> "object", query |-> "q", sources_only |-> FALSE]
    /\ pc = "stream"
    /\ events = AnswerPrefix
    /\ ended = FALSE
    /\ subQueriesWithIds = WithIds(Fallback("q"))
    /\ sqIndex = 2
    /\ resultLists = <<<<AnswerHit>>>>
    /\ allSources = <<AnswerHit>>
    /\ uniqueSources = <<AnswerHit>>
    /\ topSources = <<AnswerHit>>
    /\ call = "open"
    /\ streamStatus = 200
    /\ chunkCount = 0
    /\ lastCall = [name |-> "searchDocuments", id |-> 0,
                   response |-> [kind |-> "response", status |-> 200, data |-> "hits",
                                 hits |-> <<AnswerHit>>],
                   settled |-> "resolved", value |-> <<AnswerHit>>]
    /\ callLog = <<StartedCall("decomposeQuery", -1), StartedCall("generateEmbedding", 0),
                   StartedCall("searchDocuments", 0), StartedCall("streamClaude", -1)>>
    /\ connected = TRUE
    /\ wire \in Wires
    /\ fed = 0
    /\ buffer = <<>>
    /\ forwarded = <<>>
    /\ fullContent = ""
    /\ hung = FALSE
    /\ eventTypes = <<>>
    /\ ExtractIdle
    /\ SignIdle
    /\ CorsIdle
    /\ InvokeIdle
    /\ ProxyIdle

\* lines 253-328 and 780-782: one 'data' event with the next k bytes; every
\* text the decoder passes to onChunk is sent as an answerChunk event
AnswerData ==
    /\ pc = "stream"
    /\ call = "open"
    /\ ~hung
    /\ fed < Len(WireBytes)
    /\ \E k \in 1..(Len(WireBytes) - fed) :
         LET r == OnData(buffer, SubSeq(WireBytes, fed + 1, fed + k))
         IN  /\ buffer' = r.buffer
             /\ forwarded' = forwarded \o r.texts
             /\ fullContent' = fullContent \o Join(r.texts)
             /\ hung' = r.hung
             /\ eventTypes' = eventTypes \o r.types
             /\ fed' = fed + k
             /\ events' = events \o [i \in 1..Len(r.texts) |-> AnswerChunkEvent(r.texts[i])]
    /\ UNCHANGED <<request, pc, ended, subQueriesWithIds, sqIndex, resultLists,
                   allSources, uniqueSources, topSources, call, streamStatus,
                   chunkCount, lastCall, callLog, connected, wire, unitVars>>

\* lines 330-333 and 784-792: 'end' after the last byte; streamClaude resolves
\* with fullContent and the handler sends the two closing events
AnswerEnd ==
    /\ pc = "stream"
    /\ call = "open"
    /\ ~hung
    /\ fed = Len(WireBytes)
    /\ Return(events \o <<StepEvent("synthesize", "complete"), DoneEvent>>)
    /\ lastCall' = [name |-> "streamClaude", id |-> -1,
                    response |-> [kind |-> "end", status |-> streamStatus],
                    settled |-> "resolved", value |-> fullContent]
    /\ UNCHANGED <<request, subQueriesWithIds, sqIndex, resultLists, allSources,
                   uniqueSources, topSources, streamStatus, chunkCount, callLog,
                   connected, decoderVars, unitVars>>

NextAnswer == AnswerData \/ AnswerEnd

SpecAnswer == InitAnswer /\ [][NextAnswer]_vars

-----------------------------------------------------------------------------
(* The model-invocation requests of generateEmbedding (lines 349-421),      *)
(* decomposeQuery (lines 453-536) and streamClaude (lines 143-234).  A path  *)
(* or model id is its sequence of characters; digests are written as in the  *)
(* signRequest section.                                                     *)

\* longest CLAUDE_MODEL drawn character by character
MaxModelLen == 2

\* characters encodeURIComponent leaves as they are, among those used here
UnreservedChars ==
    {"a", "b", "c", "d", "e", "h", "i", "l", "m", "n", "o", "p", "r", "s", "t", "u",
     "v", "x", "z", "0", "1", "2", "3", "4", "5", "A", "F", ".", "-"}

\* encodeURIComponent of one character: %XX of its UTF-8 byte unless unreserved
EncodeChar(c) ==
    CASE c \in UnreservedChars -> <<c>>
      [] c = ":" -> <<"%", "3", "A">>
      [] c = "/" -> <<"%", "2", "F">>
      [] c = "%" -> <<"%", "2", "5">>
      [] c = " " -> <<"%", "2", "0">>

RECURSIVE encodeURIComponent(_)
encodeURIComponent(text) ==
    IF text = <<>> THEN <<>> ELSE EncodeChar(Head(text)) \o encodeURIComponent(Tail(text))

\* a signing path that holds the model id as it is sent
canonicalModelIdSingle(encodedModelId) == encodedModelId

\* lines 197, 356, 491: encodeURIComponent(encodedModelId)
canonicalModelId(encodedModelId) == encodeURIComponent(encodedModelId)

\* line 350
TitanModel == <<"a", "m", "a", "z", "o", "n", ".", "t", "i", "t", "a", "n", "-", "e", "m", "b", "e", "d", "-", "t", "e", "x", "t", "-", "v", "2", ":", "0">>

\* line 26: the default of CONFIG.CLAUDE_MODEL
DefaultClaudeModel == <<"u", "s", ".", "a", "n", "t", "h", "r", "o", "p", "i", "c", ".", "c", "l", "a", "u", "d", "e", "-", "s", "o", "n", "n", "e", "t", "-", "4", "-", "2", "0", "2", "5", "0", "5", "1", "4", "-", "v", "1", ":", "0">>

\* the characters a configured CLAUDE_MODEL is drawn from
ModelChars == {"a", ".", ":", "/", "%", " "}

\* CONFIG.CLAUDE_MODEL: the default, or a non-empty value of the environment
ClaudeModels ==
    {DefaultClaudeModel}
        \cup UNION {[1..n -> ModelChars] : n \in 1..MaxModelLen}

\* the text embedded, or the query the messages are built from
InvokeTexts == {"q", "sub"}

InvokeKinds == {"generateEmbedding", "decomposeQuery", "streamClaude"}

Invocations ==
    [kind : InvokeKinds, CLAUDE_MODEL : ClaudeModels, text : InvokeTexts, now : Clock]

\* lines 148, 351, 454
BedrockHost == "bedrock-runtime." \o AWS_REGION \o ".amazonaws.com"

ModelPrefix == <<"/", "m", "o", "d", "e", "l", "/">>

\* lines 151, 354, 457: the last segment of the path
PathSuffix(kind) ==
    CASE kind = "generateEmbedding" -> <<"/", "i", "n", "v", "o", "k", "e">>
      [] kind = "decomposeQuery" -> <<"/", "c", "o", "n", "v", "e", "r", "s", "e">>
      [] OTHER -> <<"/", "c", "o", "n", "v", "e", "r", "s", "e", "-", "s", "t", "r", "e", "a", "m">>

\* lines 164-172, 358-362, 459-476: JSON.stringify of the request object,
\* its constant members left out
InvokeBody(kind, modelId, text) ==
    IF kind = "generateEmbedding"
    THEN "{\"inputText\":\"" \o text \o "\",\"dimensions\":1024,\"normalize\":true}"
    ELSE "{\"modelId\":\"" \o Join(modelId) \o "\",\"messages\":[{\"role\":\"user\","
             \o "\"content\":[{\"text\":\"" \o text \o "\"}]}]}"

\* lines 175-224 (the same code at lines 365-410 and 479-524): the headers of
\* the signed request but content-length
InvokeHeaders(canonicalPath, body, now) ==
    LET date == now.date
        datetime_ == now.date \o now.time
        service == "bedrock"
        bodyHash_ == sha256(body)
        canonicalHeaders_ ==
            "content-type:application/json\n" \o "host:" \o BedrockHost \o "\n"
                \o "x-amz-content-sha256:" \o bodyHash_ \o "\n"
                \o "x-amz-date:" \o datetime_
        canonicalRequest_ ==
            "POST" \o "\n" \o Join(canonicalPath) \o "\n" \o "" \o "\n"
                \o canonicalHeaders_ \o "\n" \o "\n" \o signedHeaders \o "\n" \o bodyHash_
        credentialScope_ == date \o "/" \o AWS_REGION \o "/" \o service \o "/aws4_request"
        stringToSign_ ==
            "AWS4-HMAC-SHA256\n" \o datetime_ \o "\n" \o credentialScope_ \o "\n"
                \o sha256(canonicalRequest_)
        kDate == hmac("AWS4" \o AWS_SECRET_ACCESS_KEY, date)
        kRegion == hmac(kDate, AWS_REGION)
        kService == hmac(kRegion, service)
        kSigning == hmac(kService, "aws4_request")
        signature_ == hmac(kSigning, stringToSign_)
    IN  [h \in {"content-type", "host", "x-amz-content-sha256", "x-amz-date",
                "authorization"} |->
            CASE h = "content-type" -> "application/json"
              [] h = "host" -> BedrockHost
              [] h = "x-amz-content-sha256" -> bodyHash_
              [] h = "x-amz-date" -> datetime_
              [] OTHER -> "AWS4-HMAC-SHA256 Credential=" \o AWS_ACCESS_KEY_ID \o "/"
                              \o credentialScope_ \o ", SignedHeaders=" \o signedHeaders
                              \o ", Signature=" \o signature_]

\* lines 148-234, 349-421, 453-536: the request a call builds for a model id:
\* the options given to https.request, the body written, and the path it
\* put in the canonical request
InvokeRequest(kind, modelId, text, now) ==
    LET encodedModelId == encodeURIComponent(modelId)
        requestPath == ModelPrefix \o encodedModelId \o PathSuffix(kind)
        canonicalPath == ModelPrefix \o canonicalModelId(encodedModelId) \o PathSuffix(kind)
        body == InvokeBody(kind, modelId, text)
    IN  [hostname |-> BedrockHost, port |-> 443, path |-> requestPath, method |-> "POST",
         headers |-> InvokeHeaders(canonicalPath, body, now), body |-> body,
         canonicalPath |-> canonicalPath]

InitInvoke ==
    /\ request = [body |-> "object", query |-> "q", sources_only |-> FALSE]
    /\ pc = "invoke"
    /\ events = <<>>
    /\ ended = FALSE
    /\ subQueriesWithIds = <<>>
    /\ sqIndex = 0
    /\ resultLists = <<>>
    /\ allSources = <<>>
    /\ uniqueSources = <<>>
    /\ topSources = <<>>
    /\ call = "none"
    /\ streamStatus = 0
    /\ chunkCount = 0
    /\ lastCall = [name |-> "none"]
    /\ callLog = <<>>
    /\ connected = TRUE
    /\ DecoderIdle
    /\ ExtractIdle
    /\ SignIdle
    /\ CorsIdle
    /\ invocation \in Invocations
    /\ sent = <<>>
    /\ ProxyIdle

\* what a call leaves alone when it sends its request
InvokeFrame ==
    /\ pc' = "invoked"
    /\ UNCHANGED <<request, events, ended, subQueriesWithIds, sqIndex, resultLists,
                   allSources, uniqueSources, topSources, call, streamStatus, chunkCount,
                   lastCall, callLog, connected, decoderVars, content, resolved,
                   signVars, corsVars, invocation, proxyVars>>

\* lines 349-421: generateEmbedding sends its request; the model id is fixed
EmbeddingRequest ==
    /\ pc = "invoke"
    /\ invocation.kind = "generateEmbedding"
    /\ sent' = InvokeRequest("generateEmbedding", TitanModel, invocation.text,
                             invocation.now)
    /\ InvokeFrame

\* lines 453-536: decomposeQuery sends its request
DecomposeRequest ==
    /\ pc = "invoke"
    /\ invocation.kind = "decomposeQuery"
    /\ sent' = InvokeRequest("decomposeQuery", invocation.CLAUDE_MODEL, invocation.text,
                             invocation.now)
    /\ InvokeFrame

\* lines 143-234: streamClaude sends its request
StreamRequest ==
    /\ pc = "invoke"
    /\ invocation.kind = "streamClaude"
    /\ sent' = InvokeRequest("streamClaude", invocation.CLAUDE_MODEL, invocation.text,
                             invocation.now)
    /\ InvokeFrame

NextInvoke == EmbeddingRequest \/ DecomposeRequest \/ StreamRequest

SpecInvoke == InitInvoke /\ [][NextInvoke]_vars

-----------------------------------------------------------------------------
(* The CSR proxy (unnamed/part_000): handleIndex (lines 90-190) and          *)
(* handleQuery (lines 196-305).  A handler runs up to its await, then again  *)
(* when the body is collected, and from then on in the callbacks of the      *)
(* request to the agent.  A callback is a list of calls on res; a call that  *)
(* throws ends the callback, and outside the try block nothing catches it.   *)

\* data events one agent response delivers at most
MaxUpstreamChunks == 2

\* --- the calls on res (http.ServerResponse) ---

SetHeaderOp(name, value) == [op |-> "setHeader", name |-> name, value |-> value]
FlushHeadersOp == [op |-> "flushHeaders"]
StatusOp(code) == [op |-> "statusCode", value |-> code]
WriteOp(text) == [op |-> "write", text |-> text]
EndOp(text) == [op |-> "end", text |-> text]

\* lines 204-206: send(data) is res.write of the SSE frame of data
SendOp(event) == [op |-> "send", event |-> event]

\* JSON.stringify of an event of the proxy
EventJson(event) ==
    "{\"type\":\"" \o event.type \o "\",\"message\":\"" \o event.message \o "\"}"

\* line 205
SseFrame(event) == "data: " \o EventJson(event) \o "\n\n"

\* JSON.stringify({ success: false, error })
FailureJson(error) == "{\"success\":false,\"error\":\"" \o error \o "\"}"

ProxyEvent(type, message) == [type |-> type, message |-> message]

\* res.write(text): after end() nothing is written and an 'error' event is
\* emitted on res, which has no listener
resWrite(st, text) ==
    IF st.res.ended THEN [st EXCEPT !.writeAfterEnd = TRUE]
    ELSE [st EXCEPT !.res.headersSent = TRUE, !.res.written = Append(@, text)]

\* res.end(text): does nothing on a response that is ended
resEnd(st, text) ==
    IF st.res.ended THEN st
    ELSE [st EXCEPT !.res.headersSent = TRUE, !.res.ended = TRUE,
                    !.res.written = IF text = "" THEN @ ELSE Append(@, text)]

\* one call on res; every call made is logged
ApplyOp(st, o) ==
    LET logged == [st EXCEPT !.log = Append(@, o)]
    IN  CASE o.op = "setHeader" ->
                 IF st.res.headersSent THEN [logged EXCEPT !.threw = TRUE]
                 ELSE [logged EXCEPT !.res.headers = setHeader(@, o.name, o.value)]
          [] o.op = "flushHeaders" -> [logged EXCEPT !.res.headersSent = TRUE]
          [] o.op = "statusCode" -> [logged EXCEPT !.res.statusCode = o.value]
          [] o.op = "write" -> resWrite(logged, o.text)
          [] o.op = "send" -> resWrite(logged, SseFrame(o.event))
          [] o.op = "end" -> resEnd(logged, o.text)

RECURSIVE ApplyOps(_, _)
\* the calls of a callback in order, up to one that throws
ApplyOps(st, ops) ==
    IF ops = <<>> \/ st.threw THEN st ELSE ApplyOps(ApplyOp(st, Head(ops)), Tail(ops))

\* a callback (or a segment of the handler) that makes these calls on res
Calls(ops) ==
    LET r == ApplyOps([res |-> clientRes, log |-> clientOps, threw |-> FALSE,
                       writeAfterEnd |-> FALSE], ops)
    IN  /\ clientRes' = r.res
        /\ clientOps' = r.log
        /\ uncaught' = (uncaught \/ r.threw \/ r.writeAfterEnd)

\* --- the inbound requests ---

Undefined == [t |-> "undefined"]
Str(v) == [t |-> "string", v |-> v]
Num(v) == [t |-> "number", v |-> v]

\* !x for the values used here
Falsy(x) == x = Undefined \/ x = Str("") \/ x = Num(0)

\* x.trim() of a string
trim(v) == IF v = " " THEN "" ELSE v

\* the body of a query request: a stream that fails, a text that is not
\* JSON, the JSON null, or an object with these members
QueryInbound ==
    {[kind |-> "unreadable"], [kind |-> "notJson"], [kind |-> "null"]}
        \cup [kind : {"object"},
              sessionId : {Undefined, Str(""), Str("s1")},
              query : {Undefined, Str(""), Str(" "), Str("q"), Num(5)}]

\* the body of an index request, and its content-type
IndexInbound == [kind : {"unreadable", "readable"}, contentType : {"multipart/form-data"}]

\* error.message of what lines 212-213 and 224 throw
ThrownMessage(body) ==
    CASE body.kind = "unreadable" -> "aborted"
      [] body.kind = "notJson" -> "Unexpected token"
      [] body.kind = "null" -> "Cannot read properties of null"
      [] OTHER -> "body.query.trim is not a function"

\* error.message of a request error
SocketErrors == {"connect ECONNREFUSED", "read ECONNRESET"}

\* the chunks of an agent response
QueryChunks == {"data: {\"type\":\"text\"}\n\n"}
IndexChunks == {"{\"success\":true,\"sessionId\":\"s1\"}", "busy"}

\* lines 137-138: the session id of a response text that parses to a success
\* with a session id; "" otherwise
ParsedSessionId(responseData) ==
    IF responseData = "{\"success\":true,\"sessionId\":\"s1\"}" THEN "s1" ELSE ""

\* the request to the agent is open: no error, no end, not destroyed
Upstream(states) == proxyReq.state \in states /\ ~proxyReq.destroyed

\* what no callback changes
ProxyFrame ==
    UNCHANGED <<request, events, ended, subQueriesWithIds, sqIndex, resultLists,
                allSources, uniqueSources, topSources, call, streamStatus, chunkCount,
                lastCall, callLog, connected, decoderVars, content, resolved, signVars,
                corsVars, invokeVars, handler, inbound>>

\* --- handleQuery ---

\* lines 197-202: the SSE headers are set and flushed
QueryCalled ==
    /\ pc = "proxyCalled"
    /\ handler = "handleQuery"
    /\ Calls(<<SetHeaderOp("Content-Type", "text/event-stream"),
               SetHeaderOp("Cache-Control", "no-cache"),
               SetHeaderOp("Connection", "keep-alive"),
               SetHeaderOp("Access-Control-Allow-Origin", "*"), FlushHeadersOp>>)
    /\ pc' = "proxyBody"
    /\ UNCHANGED <<proxyReq, proxyRes, sessionCache>>
    /\ ProxyFrame

\* a validation that lets every parsed body through
ValidationOff(body) == <<>>

\* lines 218-228: the calls of the validation that rejects the body; none
\* when the body is accepted
Validation(body) ==
    IF Falsy(body.sessionId)
    THEN <<SendOp(ProxyEvent("error", "Session ID is required")), EndOp("")>>
    ELSE IF Falsy(body.query) \/ (body.query.t = "string" /\ trim(body.query.v) = "")
    THEN <<SendOp(ProxyEvent("error", "Query is required")), EndOp("")>>
    ELSE <<>>

\* lines 212-213 and 224 throw for this body
BodyThrows(body) ==
    \/ body.kind # "object"
    \/ /\ Validation(body) = <<>>
       /\ body.query.t # "string"

\* lines 210-304: the body is collected; the request is rejected, or the
\* status event is sent and the request to the agent made
QueryBodyCollected ==
    /\ pc = "proxyBody"
    /\ handler = "handleQuery"
    /\ pc' = "proxyReturned"
    /\ IF BodyThrows(inbound)
       THEN /\ Calls(<<SendOp(ProxyEvent("error", "Internal server error: "
                                                       \o ThrownMessage(inbound))),
                       EndOp("")>>)
            /\ UNCHANGED proxyReq
       ELSE IF Validation(inbound) # <<>>
       THEN /\ Calls(Validation(inbound))
            /\ UNCHANGED proxyReq
       ELSE /\ Calls(<<SendOp(ProxyEvent("status", "Connecting to CSR Agent..."))>>)
            /\ proxyReq' = [state |-> "sent", destroyed |-> FALSE]
    /\ UNCHANGED <<proxyRes, sessionCache>>
    /\ ProxyFrame

\* lines 250-262: the agent's response arrives
QueryResponse ==
    /\ handler = "handleQuery"
    /\ ~uncaught
    /\ Upstream({"sent"})
    /\ \E status \in {200, 500} : proxyRes' = [statusCode |-> status, data |-> "", chunks |-> 0]
    /\ proxyReq' = [proxyReq EXCEPT !.state = "responding"]
    /\ UNCHANGED <<pc, clientRes, clientOps, uncaught, sessionCache>>
    /\ ProxyFrame

\* lines 255 and 265-269: a chunk of the response
QueryData ==
    /\ handler = "handleQuery"
    /\ ~uncaught
    /\ Upstream({"responding"})
    /\ proxyRes.chunks < MaxUpstreamChunks
    /\ \E chunk \in QueryChunks :
         IF proxyRes.statusCode # 200
         THEN /\ proxyRes' = [proxyRes EXCEPT !.data = @ \o chunk, !.chunks = @ + 1]
              /\ UNCHANGED <<clientRes, clientOps, uncaught>>
         ELSE /\ proxyRes' = [proxyRes EXCEPT !.chunks = @ + 1]
              /\ Calls(<<WriteOp(chunk)>>)
    /\ UNCHANGED <<pc, proxyReq, sessionCache>>
    /\ ProxyFrame

\* lines 256-260 and 271-274: the response ends
QueryEnd ==
    /\ handler = "handleQuery"
    /\ ~uncaught
    /\ Upstream({"responding"})
    /\ IF proxyRes.statusCode # 200
       THEN Calls(<<SendOp(ProxyEvent("error",
                        "CSR Agent error: "
                            \o (IF proxyRes.data = "" THEN ToString(proxyRes.statusCode)
                                ELSE proxyRes.data))),
                    EndOp("")>>)
       ELSE Calls(<<EndOp("")>>)
    /\ proxyReq' = [proxyReq EXCEPT !.state = "closed"]
    /\ UNCHANGED <<pc, proxyRes, sessionCache>>
    /\ ProxyFrame

\* lines 283-287, the calls of the request's 'error' listener
QueryErrorCalls(message) ==
    <<SendOp(ProxyEvent("error", "CSR Agent is not available: " \o message)), EndOp("")>>

\* lines 283-287: the socket fails before or during the response; a response
\* that had begun is aborted
QueryRequestError ==
    /\ handler = "handleQuery"
    /\ ~uncaught
    /\ Upstream({"sent", "responding"})
    /\ \E message \in SocketErrors : Calls(QueryErrorCalls(message))
    /\ proxyReq' = [proxyReq EXCEPT
                       !.state = IF @ = "responding" THEN "aborted" ELSE "closed"]
    /\ UNCHANGED <<pc, proxyRes, sessionCache>>
    /\ ProxyFrame

\* lines 289-294: the socket has been idle for QUERY_TIMEOUT, before or
\* during the response; the listener destroys the request
QueryTimeout ==
    /\ handler = "handleQuery"
    /\ ~uncaught
    /\ Upstream({"sent", "responding"})
    /\ proxyReq' = [proxyReq EXCEPT !.destroyed = TRUE]
    /\ Calls(<<SendOp(ProxyEvent("error", "CSR Agent request timeout")), EndOp("")>>)
    /\ UNCHANGED <<pc, proxyRes, sessionCache>>
    /\ ProxyFrame

\* lines 283-287: a request destroyed before its response emits 'error'
\* (socket hang up)
QueryDestroyedError ==
    /\ handler = "handleQuery"
    /\ ~uncaught
    /\ proxyReq.state = "sent"
    /\ proxyReq.destroyed
    /\ Calls(QueryErrorCalls("socket hang up"))
    /\ proxyReq' = [proxyReq EXCEPT !.state = "closed"]
    /\ UNCHANGED <<pc, proxyRes, sessionCache>>
    /\ ProxyFrame

\* lines 276-280: a response cut off by the failure or the destruction of
\* its request emits 'error' (aborted); the listener is there for status 200
QueryResponseError ==
    /\ handler = "handleQuery"
    /\ ~uncaught
    /\ \/ proxyReq.state = "aborted"
       \/ proxyReq.state = "responding" /\ proxyReq.destroyed
    /\ proxyRes.statusCode = 200
    /\ Calls(<<SendOp(ProxyEvent("error", "Stream error: aborted")), EndOp("")>>)
    /\ proxyReq' = [proxyReq EXCEPT !.state = "closed"]
    /\ UNCHANGED <<pc, proxyRes, sessionCache>>
    /\ ProxyFrame

\* --- handleIndex ---

\* line 91
IndexCalled ==
    /\ pc = "proxyCalled"
    /\ handler = "handleIndex"
    /\ Calls(<<SetHeaderOp("Access-Control-Allow-Origin", "*")>>)
    /\ pc' = "proxyBody"
    /\ UNCHANGED <<proxyReq, proxyRes, sessionCache>>
    /\ ProxyFrame

\* lines 96-189: the body is collected and the request to the agent made, or
\* collecting it fails
IndexBodyCollected ==
    /\ pc = "proxyBody"
    /\ handler = "handleIndex"
    /\ pc' = "proxyReturned"
    /\ IF inbound.kind = "unreadable"
       THEN /\ Calls(<<StatusOp(500), SetHeaderOp("Content-Type", "application/json"),
                       EndOp(FailureJson("Internal server error: "
                                             \o ThrownMessage(inbound)))>>)
            /\ UNCHANGED proxyReq
       ELSE /\ proxyReq' = [state |-> "sent", destroyed |-> FALSE]
            /\ UNCHANGED <<clientRes, clientOps, uncaught>>
    /\ UNCHANGED <<proxyRes, sessionCache>>
    /\ ProxyFrame

\* lines 119-130: the agent's response arrives; its status and content type
\* are copied
IndexResponse ==
    /\ handler = "handleIndex"
    /\ ~uncaught
    /\ Upstream({"sent"})
    /\ \E status \in {200, 500}, contentType \in {"", "text/plain"} :
         /\ proxyRes' = [statusCode |-> status, data |-> "", chunks |-> 0]
         /\ Calls(<<StatusOp(status),
                    SetHeaderOp("Content-Type",
                                IF contentType = "" THEN "application/json"
                                ELSE contentType)>>)
    /\ proxyReq' = [proxyReq EXCEPT !.state = "responding"]
    /\ UNCHANGED <<pc, sessionCache>>
    /\ ProxyFrame

\* lines 128-130
IndexData ==
    /\ handler = "handleIndex"
    /\ ~uncaught
    /\ Upstream({"responding"})
    /\ proxyRes.chunks < MaxUpstreamChunks
    /\ \E chunk \in IndexChunks :
         proxyRes' = [proxyRes EXCEPT !.data = @ \o chunk, !.chunks = @ + 1]
    /\ UNCHANGED <<pc, proxyReq, clientRes, clientOps, uncaught, sessionCache>>
    /\ ProxyFrame

\* lines 132-153: the session is cached and the collected text forwarded
IndexEnd ==
    /\ handler = "handleIndex"
    /\ ~uncaught
    /\ Upstream({"responding"})
    /\ sessionCache' = IF ParsedSessionId(proxyRes.data) = "" THEN sessionCache
                       ELSE sessionCache \cup {ParsedSessionId(proxyRes.data)}
    /\ Calls(<<EndOp(proxyRes.data)>>)
    /\ proxyReq' = [proxyReq EXCEPT !.state = "closed"]
    /\ UNCHANGED <<pc, proxyRes>>
    /\ ProxyFrame

\* lines 156-164, the calls of the request's 'error' listener
IndexErrorCalls(message) ==
    <<StatusOp(503), SetHeaderOp("Content-Type", "application/json"),
      EndOp(FailureJson("CSR Agent is not available: " \o message))>>

\* lines 156-164: the socket fails before or during the response; the
\* response has no 'error' listener and never ends
IndexRequestError ==
    /\ handler = "handleIndex"
    /\ ~uncaught
    /\ Upstream({"sent", "responding"})
    /\ \E message \in SocketErrors : Calls(IndexErrorCalls(message))
    /\ proxyReq' = [proxyReq EXCEPT !.state = "closed"]
    /\ UNCHANGED <<pc, proxyRes, sessionCache>>
    /\ ProxyFrame

\* lines 166-175
IndexTimeout ==
    /\ handler = "handleIndex"
    /\ ~uncaught
    /\ Upstream({"sent", "responding"})
    /\ proxyReq' = [proxyReq EXCEPT !.destroyed = TRUE]
    /\ Calls(<<StatusOp(504), SetHeaderOp("Content-Type", "application/json"),
               EndOp(FailureJson("CSR Agent request timeout - indexing may take several minutes for large documents"))>>)
    /\ UNCHANGED <<pc, proxyRes, sessionCache>>
    /\ ProxyFrame

\* lines 156-164: a request destroyed before its response emits 'error'
\* (socket hang up)
IndexDestroyedError ==
    /\ handler = "handleIndex"
    /\ ~uncaught
    /\ proxyReq.state = "sent"
    /\ proxyReq.destroyed
    /\ Calls(IndexErrorCalls("socket hang up"))
    /\ proxyReq' = [proxyReq EXCEPT !.state = "closed"]
    /\ UNCHANGED <<pc, proxyRes, sessionCache>>
    /\ ProxyFrame

\* lines 61-63: the headers the router's handleCors has set on res
RouterHeaders ==
    <<[name |-> "Access-Control-Allow-Origin", value |-> "*"],
      [name |-> "Access-Control-Allow-Methods", value |-> "GET, POST, DELETE, OPTIONS"],
      [name |-> "Access-Control-Allow-Headers", value |-> "Content-Type, Authorization"]>>

\* the router has called one of the two handlers (lines 488-495)
InitProxy ==
    /\ request = [body |-> "object", query |-> "q", sources_only |-> FALSE]
    /\ pc = "proxyCalled"
    /\ events = <<>>
    /\ ended = FALSE
    /\ subQueriesWithIds = <<>>
    /\ sqIndex = 0
    /\ resultLists = <<>>
    /\ allSources = <<>>
    /\ uniqueSources = <<>>
    /\ topSources = <<>>
    /\ call = "none"
    /\ streamStatus = 0
    /\ chunkCount = 0
    /\ lastCall = [name |-> "none"]
    /\ callLog = <<>>
    /\ connected = TRUE
    /\ DecoderIdle
    /\ ExtractIdle
    /\ SignIdle
    /\ CorsIdle
    /\ InvokeIdle
    /\ handler \in {"handleIndex", "handleQuery"}
    /\ inbound \in IF handler = "handleQuery" THEN QueryInbound ELSE IndexInbound
    /\ proxyReq = [state |-> "none", destroyed |-> FALSE]
    /\ proxyRes = [statusCode |-> 0, data |-> "", chunks |-> 0]
    /\ clientRes = [statusCode |-> 200,
                    headers |-> RouterHeaders,
                    headersSent |-> FALSE, ended |-> FALSE, written |-> <<>>]
    /\ clientOps = <<>>
    /\ uncaught = FALSE
    /\ sessionCache = {}

NextProxy ==
    \/ QueryCalled \/ QueryBodyCollected \/ QueryResponse \/ QueryData \/ QueryEnd
    \/ QueryRequestError \/ QueryTimeout \/ QueryDestroyedError \/ QueryResponseError
    \/ IndexCalled \/ IndexBodyCollected \/ IndexResponse \/ IndexData \/ IndexEnd
    \/ IndexRequestError \/ IndexTimeout \/ IndexDestroyedError

SpecProxy == InitProxy /\ [][NextProxy]_vars

-----------------------------------------------------------------------------
(* Properties *)

EventIndexes == 1..Len(events)

CountOf(type) == Cardinality({i \in EventIndexes : events[i].type = type})

TerminalCount == Cardinality({i \in EventIndexes : IsTerminal(events[i])})

HasQuery == request.body = "object" /\ request.query = "q"

\* C1: for a request with a non-empty query the events written are never empty
\* once the request has been read, there is never more than one terminal
\* event (done or error), and once the response has been ended there is
\* exactly one, which is the last event
C1_OneTerminalEvent ==
    HasQuery =>
        /\ TerminalCount <= 1
        /\ pc # "start" => Len(events) > 0
        /\ ended => /\ TerminalCount = 1
                    /\ IsTerminal(events[Len(events)])

\* a full run that streamed MaxChunks data chunks and ended with done
C1_Witness ==
    /\ HasQuery
    /\ ended
    /\ events[Len(events)] = DoneEvent
    /\ chunkCount = MaxChunks

\* C2: once a terminal event has been written or the response ended, no step
\* of the run (no data callback of the model stream in particular) writes
\* another event
C2_NoEventAfterTermination ==
    [][(ended \/ TerminalCount > 0) => events' = events]_vars

\* the model stream delivered text and then failed: error follows answerChunk
C2_Witness ==
    /\ ended
    /\ events[Len(events)].type = "error"
    /\ \E i \in EventIndexes :
         events[i].type = "answerChunk" /\ events[i].text \in Fragments

\* C3: every run eventually writes a terminal event or ends the response
C3_EveryRunTerminates == <>(ended \/ TerminalCount > 0)

\* C4: every answerChunk is preceded by the sources event
C4_AnswerAfterSources ==
    \A i \in EventIndexes :
        events[i].type = "answerChunk" =>
            \E j \in 1..(i - 1) : events[j].type = "sources"

\* a full run over at least one sub-query that found nothing and sent the fixed text
C4_Witness ==
    /\ \E i \in EventIndexes : events[i] = AnswerChunkEvent(NoDocsText)
    /\ Len(subQueriesWithIds) > 0

\* C5: at most one sources event; exactly one in a run that ends with done
C5_OneSourcesEvent ==
    /\ CountOf("sources") <= 1
    /\ (Len(events) > 0 /\ events[Len(events)] = DoneEvent) => CountOf("sources") = 1

\* a run over several sub-queries, some searched and some failed, ended with done
C5_Witness ==
    /\ Len(events) > 0
    /\ events[Len(events)] = DoneEvent
    /\ Len(subQueriesWithIds) > 1
    /\ Len(resultLists) > 0
    /\ Len(resultLists) < Len(subQueriesWithIds)
    /\ Len(allSources) > 0

\* C6: a request whose query is empty or absent gets the single event
\* error "Query is required" and the response is ended
C6_EmptyQueryRejected ==
    (request.body = "object" /\ request.query \in {"", "absent"} /\ pc # "start") =>
        /\ events = <<ErrorEvent("Query is required")>>
        /\ ended
        /\ pc = "returned"

\* the empty string has been rejected
C6_Witness ==
    /\ request.body = "object"
    /\ request.query = ""
    /\ pc = "returned"

SourcesOnlyRun == request.body = "object" /\ request.sources_only

NoDecompositionEvents ==
    \A i \in EventIndexes :
        events[i].type \notin {"subQueries", "subQueryStatus", "answerChunk"}

\* C7 as stated: in a sources_only run none of subQueries, subQueryStatus,
\* answerChunk is sent and done is the event right after sources
C7_DoneImmediatelyAfterSources ==
    SourcesOnlyRun =>
        /\ NoDecompositionEvents
        /\ \A i \in EventIndexes :
             events[i].type = "sources" =>
                 (i < Len(events) /\ events[i + 1] = DoneEvent)

\* C7 amended: in a sources_only run none of subQueries, subQueryStatus,
\* answerChunk is sent, and sources is followed by step{search, complete} and
\* then by done, the last event
C7_DoneAfterSearchComplete ==
    SourcesOnlyRun =>
        /\ NoDecompositionEvents
        /\ \A i \in EventIndexes :
             events[i].type = "sources" =>
                 /\ Len(events) = i + 2
                 /\ events[i + 1] = StepEvent("search", "complete")
                 /\ events[i + 2] = DoneEvent
        /\ (ended /\ request.query = "q") => CountOf("sources") = 1

\* a sources_only run that returned sources
C7_Witness ==
    /\ SourcesOnlyRun
    /\ ended
    /\ Len(topSources) > 0
    /\ CountOf("sources") = 1

-----------------------------------------------------------------------------
(* Properties of the dedup-and-rank stage *)

Ranked == pc = "returned"

Ids(s) == {s[i].id : i \in 1..Len(s)}

\* the highest score among the hits of s with this id
BestScore(s, id) ==
    CHOOSE v \in {s[i].relevanceScore : i \in {j \in 1..Len(s) : s[j].id = id}} :
        \A i \in 1..Len(s) : s[i].id = id => s[i].relevanceScore <= v

\* C8: the merged set has exactly one hit per distinct id gathered, with the
\* highest score gathered for that id
C8_DedupKeepsBest ==
    Ranked =>
        /\ Ids(uniqueSources) = Ids(allSources)
        /\ Cardinality(Ids(uniqueSources)) = Len(uniqueSources)
        /\ \A i \in 1..Len(uniqueSources) :
             uniqueSources[i].relevanceScore = BestScore(allSources, uniqueSources[i].id)

\* one id arrives first with its lower score, another first with its higher score
C8_Witness ==
    /\ Ranked
    /\ \E i, j \in 1..Len(allSources) :
         /\ i < j
         /\ allSources[i].id = allSources[j].id
         /\ allSources[i].relevanceScore < allSources[j].relevanceScore
    /\ \E i, j \in 1..Len(allSources) :
         /\ i < j
         /\ allSources[i].id = allSources[j].id
         /\ allSources[i].relevanceScore > allSources[j].relevanceScore

\* C9: the list carried by the sources event is in non-increasing score order
\* and has at most 8 entries
C9_SourcesRanked ==
    \A e \in EventIndexes :
        events[e].type = "sources" =>
            LET srcs == events[e].sources
            IN  /\ Len(srcs) <= 8
                /\ \A i \in 1..(Len(srcs) - 1) :
                     srcs[i].relevanceScore >= srcs[i + 1].relevanceScore

\* more than 8 distinct documents were gathered, out of score order
C9_Witness ==
    /\ Ranked
    /\ Len(uniqueSources) > 8
    /\ Len(topSources) = 8
    /\ \E i \in 1..(Len(allSources) - 1) :
         allSources[i].relevanceScore < allSources[i + 1].relevanceScore

\* the gathered lists merged in the order p
MergedInOrder(p) ==
    Slice(SortByRelevance(Dedupe(Flatten([i \in 1..Len(resultLists) |-> resultLists[p[i]]]))))

MergeOrders == Permutations(1..Len(resultLists))

Scores(s) == [i \in 1..Len(s) |-> s[i].relevanceScore]

\* no two distinct documents have the same best score
NoTies ==
    \A a, b \in Ids(Flatten(resultLists)) :
        a # b => BestScore(Flatten(resultLists), a) # BestScore(Flatten(resultLists), b)

\* C10 as stated: the sources are the same, in the same order, whatever the
\* order in which the result lists are merged
C10_MergeOrderIndependent ==
    Ranked => \A p \in MergeOrders : MergedInOrder(p) = topSources

\* C10 amended: the scores of the sources are the same for every merge order,
\* and so are the sources themselves when no two distinct documents tie
C10_MergeOrderIndependentWithoutTies ==
    Ranked =>
        /\ \A p \in MergeOrders : Scores(MergedInOrder(p)) = Scores(topSources)
        /\ NoTies => \A p \in MergeOrders : MergedInOrder(p) = topSources

\* three documents without ties, one of them gathered twice with different scores
C10_Witness ==
    /\ Ranked
    /\ NoTies
    /\ Len(uniqueSources) >= 3
    /\ Len(allSources) > Len(uniqueSources)
    /\ resultLists[1] # <<>>
    /\ resultLists[3] # <<>>

-----------------------------------------------------------------------------
(* Failures of the backend calls *)

\* the step taken is the settling of the call that pc names
Settles(name) ==
    /\ pc = name
    /\ call = "sent"
    /\ call' # "stalled"
    /\ connected' = connected

\* the outcomes of the decomposition call which the model did not answer with
\* a subQueries field
DecompositionFailures ==
    {"requestError", "notJson", "noContent", "textNotJson", "noSubQueries"}

\* C11: when the decomposition call fails (transport error, body or text
\* that is not JSON, no text content, parsed object without subQueries),
\* decomposeQuery resolves to exactly one entry, the original query with the
\* intent "main query"; the handler announces that one sub-query, starts the
\* search stage with it and writes no error event
C11_DecompositionFallback ==
    [][(Settles("decompose") /\ lastCall'.response.kind \in DecompositionFailures)
        => /\ lastCall'.name = "decomposeQuery"
           /\ lastCall'.settled = "resolved"
           /\ lastCall'.value = <<[query |-> request.query, intent |-> "main query"]>>
           /\ Len(subQueriesWithIds') = 1
           /\ subQueriesWithIds'[1].query = request.query
           /\ subQueriesWithIds'[1].intent = "main query"
           /\ pc' = "embed"
           /\ callLog' = Append(callLog, [name |-> "generateEmbedding", id |-> 0])
           /\ events'[Len(events) + 1] =
                  [type |-> "subQueries", subQueries |-> subQueriesWithIds']
           /\ \A i \in 1..Len(events') : events'[i].type # "error"]_vars

\* the transport of the decomposition call has failed and the search stage
\* is running on the fallback
C11_Witness ==
    /\ lastCall.name = "decomposeQuery"
    /\ lastCall.response.kind = "requestError"
    /\ pc = "embed"
    /\ sqIndex = 1
    /\ Len(subQueriesWithIds) = 1
    /\ subQueriesWithIds[1].query = "q"

\* the call of a sub-query has failed: its embedding was rejected, or its
\* retrieval met a transport error or a status other than 200
SubQueryFailure(c) ==
    \/ c.name = "generateEmbedding" /\ c.settled = "rejected"
    \/ /\ c.name = "searchDocuments"
       /\ c.response.kind = "requestError" \/ c.response.status # 200

\* C14: in full mode, when the embedding or the retrieval of a sub-query
\* fails, the next event written is subQueryStatus complete with resultCount 0
\* for that sub-query, no error event is in the response, and the run goes on:
\* it starts the embedding of the next sub-query or, after the last one,
\* emits sources
C14_SubQueryFailureSwallowed ==
    [][((Settles("embed") \/ Settles("search"))
          /\ ~request.sources_only /\ SubQueryFailure(lastCall'))
        => /\ Len(events') > Len(events)
           /\ SubSeq(events', 1, Len(events)) = events
           /\ events'[Len(events) + 1] =
                  [type |-> "subQueryStatus", id |-> subQueriesWithIds[sqIndex].id,
                   status |-> "complete", resultCount |-> 0]
           /\ \A i \in 1..Len(events') : events'[i].type # "error"
           /\ IF sqIndex < Len(subQueriesWithIds)
              THEN /\ pc' = "embed"
                   /\ sqIndex' = sqIndex + 1
                   /\ callLog' = Append(callLog,
                          [name |-> "generateEmbedding",
                           id |-> subQueriesWithIds[sqIndex + 1].id])
              ELSE \E i \in Len(events) + 2..Len(events') :
                       events'[i].type = "sources"]_vars

\* the retrieval of the first of several sub-queries has met a transport
\* error and the run is embedding the second one
C14_Witness ==
    /\ ~request.sources_only
    /\ lastCall.name = "searchDocuments"
    /\ lastCall.response.kind = "requestError"
    /\ lastCall.id = 0
    /\ Len(subQueriesWithIds) >= 2
    /\ pc = "embed"
    /\ sqIndex = 2
    /\ \E i \in EventIndexes : events[i] = CompleteEvent(0, 0)

\* the last event written
LastEvent == events[Len(events)]

\* C15: when the model stream call has failed (status other than 200, or
\* transport error) the response has been ended, its last event is an error
\* that comes after the sources event, and it holds neither done nor
\* step{synthesize, complete}; while the body of a response with a status
\* other than 200 is being read the call has not failed and no terminal event
\* is written; and the message of the failure caused by the status holds the
\* status code and the body text
C15_StreamFailure ==
    /\ (lastCall.name = "streamClaude" /\ lastCall.settled = "rejected")
        => /\ ended
           /\ LastEvent.type = "error"
           /\ \E i \in 1..Len(events) - 1 : events[i].type = "sources"
           /\ \A i \in EventIndexes :
                  /\ events[i].type # "done"
                  /\ events[i] # [type |-> "step", step |-> "synthesize",
                                  status |-> "complete"]
           /\ TerminalCount = 1
    /\ call = "errbody"
        => /\ streamStatus # 200
           /\ lastCall.name # "streamClaude"
           /\ ~ended
           /\ TerminalCount = 0
    /\ (lastCall.name = "streamClaude" /\ lastCall.response.kind = "errorBody")
        => /\ lastCall.response.status = 403
           /\ lastCall.response.errorData = "denied"
                  => LastEvent.message = "Claude API error: 403 - denied"
           /\ lastCall.response.errorData = ""
                  => LastEvent.message = "Claude API error: 403 - "

\* the model host has answered 403 with a body, and the run has ended
C15_Witness ==
    /\ lastCall.name = "streamClaude"
    /\ lastCall.response.kind = "errorBody"
    /\ lastCall.response.errorData = "denied"
    /\ ended
    /\ LastEvent.type = "error"

\* how many times the call name has been started for id
Started(name, id) ==
    Cardinality({i \in 1..Len(callLog) : callLog[i] = [name |-> name, id |-> id]})

SubQueryIds == {subQueriesWithIds[k].id : k \in 1..Len(subQueriesWithIds)}

\* the search stage is over: the sources event has been written
SearchStageOver == CountOf("sources") > 0

\* C17: within a run the decomposition and the model stream are started at
\* most once each; for each sub-query the embedding and the retrieval are
\* started at most once each, and once the search stage is over the embedding
\* of every sub-query has been started exactly once; a retrieval is started
\* only in the step in which the embedding of the same sub-query resolves;
\* and the call a step starts is never the call that has settled in it
C17_NoCallRepeated ==
    /\ [](/\ Started("decomposeQuery", -1) <= 1
          /\ Started("streamClaude", -1) <= 1
          /\ \A i \in 1..Len(callLog) :
                 \/ callLog[i] \in {[name |-> "decomposeQuery", id |-> -1],
                                    [name |-> "streamClaude", id |-> -1]}
                 \/ /\ callLog[i].name \in {"generateEmbedding", "searchDocuments"}
                    /\ callLog[i].id \in SubQueryIds
                    /\ Started(callLog[i].name, callLog[i].id) = 1
                    /\ callLog[i].name = "searchDocuments"
                           => /\ i > 1
                              /\ callLog[i - 1] = [name |-> "generateEmbedding",
                                                   id |-> callLog[i].id]
          /\ SearchStageOver
                 => \A id \in SubQueryIds : Started("generateEmbedding", id) = 1)
    /\ [][(callLog' # callLog)
          => /\ Len(callLog') = Len(callLog) + 1
             /\ SubSeq(callLog', 1, Len(callLog)) = callLog
             /\ callLog'[Len(callLog')].name = "searchDocuments"
                    => /\ lastCall'.name = "generateEmbedding"
                       /\ lastCall'.settled = "resolved"
                       /\ lastCall'.id = callLog'[Len(callLog')].id
                       /\ pc = "embed"
             /\ lastCall'.name # "none"
                    => callLog'[Len(callLog')] #
                           [name |-> lastCall'.name, id |-> lastCall'.id]]_vars

\* a run of several sub-queries in which an embedding and a retrieval have
\* failed has reached the model stream
C17_Witness ==
    /\ Len(subQueriesWithIds) >= 2
    /\ pc = "stream"
    /\ Started("streamClaude", -1) = 1
    /\ Started("decomposeQuery", -1) = 1
    /\ \E id \in SubQueryIds : Started("searchDocuments", id) = 0
    /\ \E id \in SubQueryIds : Started("searchDocuments", id) = 1
    /\ Len(callLog) >= 5

\* C18: searchDocuments never rejects: whatever the signed request delivers,
\* it resolves to a list of hits, and that list is empty when the request met
\* a transport error or the response status is not 200
C18_SearchNeverRejects ==
    lastCall.name = "searchDocuments"
        => /\ lastCall.settled = "resolved"
           /\ lastCall.value \in Seq(Hits)
           /\ (lastCall.response.kind = "requestError" \/ lastCall.response.status # 200)
                  => lastCall.value = <<>>

\* the index has answered 500 with a body that holds a hit
C18_Witness ==
    /\ lastCall.name = "searchDocuments"
    /\ lastCall.response.status = 500
    /\ lastCall.response.hits # <<>>
    /\ lastCall.settled = "resolved"

\* C19: generateEmbedding resolves only for a response with status 200 whose
\* body holds the embedding vector; it rejects on a transport error, on any
\* other status and on a body without the vector
C19_EmbeddingRejectsUnlessOk ==
    lastCall.name = "generateEmbedding"
        => (lastCall.settled = "resolved"
                <=> /\ lastCall.response.kind = "response"
                    /\ lastCall.response.status = 200
                    /\ lastCall.response.body = "vector")

\* C20: for a request whose body has no query or an empty one, no backend
\* call (decomposition, embedding, retrieval, model stream) is ever started
\* and none is in flight
C20_NoWorkWithoutQuery ==
    (request.body = "object" /\ request.query \in {"absent", ""})
        => /\ callLog = <<>>
           /\ call = "none"
           /\ lastCall.name = "none"
           /\ pc \in {"start", "returned"}

\* a request without a query field has been answered
C20_Witness ==
    /\ request.body = "object"
    /\ request.query = "absent"
    /\ ended
    /\ LastEvent = ErrorEvent("Query is required")

\* the caller is gone while the run is in its search stage or is streaming
\* the answer
GoneMidRun == ~connected /\ pc \in {"embed", "search", "stream"}

\* C16: when the caller has disconnected during the search or while the
\* answer is streaming, no backend call is in flight (it has been aborted),
\* no backend call is started and no event is written to the response
C16_DisconnectStopsRun ==
    /\ [](GoneMidRun => call \notin {"sent", "open", "errbody"})
    /\ [][GoneMidRun => (callLog' = callLog /\ events' = events)]_vars

-----------------------------------------------------------------------------
(* Properties of the frame decoder *)

\* what the decoder holds after the first n bytes have arrived in one chunk
InOneChunk(n) == OnData(<<>>, SubSeq(WireBytes, 1, n))

\* C12: however the bytes of a stream of complete frames have been cut into
\* data events, the texts passed to onChunk and the bytes left in the buffer
\* are those of the same bytes arriving as one chunk
C12_ChunkingIndependent ==
    /\ forwarded = InOneChunk(fed).texts
    /\ buffer = InOneChunk(fed).buffer

\* the text of a first frame has been forwarded and a data event has ended
\* inside the prelude of the second frame, which holds a text too
C12_Witness ==
    /\ wire = <<AlphaFrame, BetaFrame>>
    /\ fed = Len(AlphaFrame) + 5
    /\ Len(buffer) = 5
    /\ forwarded = <<"alpha">>

\* the texts a frame of the response holds for the caller
Expected(frame) ==
    CASE frame = AlphaFrame -> <<"alpha">>
      [] frame = BetaFrame -> <<"beta">>
      [] OTHER -> <<>>

RECURSIVE ExpectedOf(_)
ExpectedOf(frames) ==
    IF frames = <<>> THEN <<>> ELSE Expected(Head(frames)) \o ExpectedOf(Tail(frames))

\* C13: when all the bytes of the response have arrived, the texts passed to
\* onChunk are those of its well-formed frames, in order: a complete frame
\* whose payload is not JSON has added none and has not kept the frames after
\* it from being decoded; the buffer is empty and the stream call is neither
\* rejected nor ended by it
C13_BadPayloadSkipped ==
    fed = Len(WireBytes)
        => /\ forwarded = ExpectedOf(wire)
           /\ buffer = <<>>
           /\ call = "open"
           /\ ~ended
           /\ events = <<>>

\* a frame with a payload that is not JSON, then a frame with a text: the
\* text has been forwarded
C13_Witness ==
    /\ wire = <<CorruptFrame, AlphaFrame>>
    /\ fed = Len(WireBytes)
    /\ forwarded = <<"alpha">>

-----------------------------------------------------------------------------
(* Properties of the decomposition *)

\* the search stage has been entered
SearchStageEntered ==
    \E i \in EventIndexes : events[i] = StepEvent("search", "active")

\* the decomposition call has settled with the subQueries array of the model
DecompositionAnswered ==
    /\ \E i \in 1..Len(callLog) : callLog[i].name = "decomposeQuery"
    /\ \E i \in EventIndexes : events[i].type = "subQueries"
    /\ subQueriesWithIds # WithIds(Fallback(request.query))

\* C21: the search stage runs over 1 to 4 sub-queries: 2 to 4 of them when
\* the decomposition was answered with a subQueries array, exactly 1 when it
\* fell back or was skipped
C21_SubQueryCountBounded ==
    SearchStageEntered
        => /\ Len(subQueriesWithIds) \in 1..4
           /\ DecompositionAnswered => Len(subQueriesWithIds) \in 2..4
           /\ request.sources_only => Len(subQueriesWithIds) = 1

\* the first balanced brace substring of a text: from the first "{" to the
\* "}" that closes it; <<>> when no brace is closed
Depth(text, i, j) ==
    Cardinality({k \in i..j : text[k] = "{"}) - Cardinality({k \in i..j : text[k] = "}"})

FirstBalanced(text) ==
    LET opens == Positions(text, "{")
        first == Lowest(opens)
        closes == IF opens = {} THEN {}
                  ELSE {j \in first..Len(text) : Depth(text, first, j) = 0}
    IN  IF closes = {} THEN <<>> ELSE SubSeq(text, first, Lowest(closes))

\* C22: for every answer text whose first balanced brace substring is a JSON
\* object with a subQueries array, whatever surrounds or follows it,
\* decomposeQuery resolves to that array and not to the fallback
C22_FirstBalancedObjectParsed ==
    (pc = "extracted" /\ JsonParse(FirstBalanced(content)).kind = "subQueries")
        => /\ resolved.items = ModelSubQueries(JsonParse(FirstBalanced(content)).n)
           /\ resolved.items # Fallback(request.query)

-----------------------------------------------------------------------------
(* Properties of signRequest *)

\* the two signings have the same arguments and clock but for field
SameBut(field) ==
    \A f \in {"method", "url", "body", "service", "now"} \ {field} :
        signInputs[1][f] = signInputs[2][f]

\* C23: two signings of the same method, url, body and service at the same
\* timestamp return the same header map; two signings that differ only in
\* the body return different x-amz-content-sha256 headers and different
\* signatures (hence different authorization headers)
C23_SigningDeterministic ==
    pc = "signed"
        => /\ signInputs[1] = signInputs[2] => signOutputs[1] = signOutputs[2]
           /\ (SameBut("body") /\ signInputs[1].body # signInputs[2].body)
                  => /\ signOutputs[1]["x-amz-content-sha256"] #
                            signOutputs[2]["x-amz-content-sha256"]
                     /\ signature(signInputs[1]) # signature(signInputs[2])
                     /\ signOutputs[1]["authorization"] # signOutputs[2]["authorization"]
                     /\ \A h \in {"content-type", "host", "x-amz-date"} :
                            signOutputs[1][h] = signOutputs[2][h]

\* the same request has been signed with an empty body and with a query
C23_Witness ==
    /\ pc = "signed"
    /\ SameBut("body")
    /\ signInputs[1].body = ""
    /\ signInputs[2].body = "{\"size\":5}"
    /\ signOutputs[1]["authorization"] # signOutputs[2]["authorization"]

-----------------------------------------------------------------------------
(* Properties of handleCors *)

\* C24: handleCors answers an OPTIONS request with status 200, an empty
\* body, allow-origin *, allowed methods POST, OPTIONS and allowed header
\* Content-Type, ends the response and returns true; for every other method
\* it returns false and does not end the response
C24_CorsPreflight ==
    pc = "corsReturned"
        => IF req.method = "OPTIONS"
           THEN /\ res.statusCode = 200
                /\ res.body = ""
                /\ getHeader(res.headers, "Access-Control-Allow-Origin") = "*"
                /\ getHeader(res.headers, "Access-Control-Allow-Methods") = "POST, OPTIONS"
                /\ getHeader(res.headers, "Access-Control-Allow-Headers") = "Content-Type"
                /\ res.ended
                /\ returned = TRUE
           ELSE /\ returned = FALSE
                /\ ~res.ended

\* a preflight has been answered on a response that held a Content-Type
\* header and nothing else
C24_Witness ==
    /\ pc = "corsReturned"
    /\ req.method = "OPTIONS"
    /\ returned = TRUE
    /\ res.ended
    /\ Len(res.headers) = 4
    /\ res.headers[1] = [name |-> "Content-Type", value |-> "text/plain"]
    /\ res.statusCode = 200

-----------------------------------------------------------------------------
(* Order of the events of a run *)

Stages == <<"analyze", "decompose", "search", "synthesize">>

StageRank(step) == CHOOSE k \in 1..Len(Stages) : Stages[k] = step

\* where the step event of a stage and status has been written
StepAt(step, status) ==
    {i \in EventIndexes : /\ events[i].type = "step"
                          /\ events[i].step = step
                          /\ events[i].status = status}

StageNames == {Stages[k] : k \in 1..Len(Stages)}

\* C25: step events follow the stage order analyze, decompose, search,
\* synthesize: no step is activated or completed twice, a complete comes
\* after the active of its step, a step is activated only after every step
\* activated before it has been completed, and that step is an earlier stage;
\* when the run has written done, every activated step was completed before
C25_StepOrder ==
    LET active == [s \in StageNames |-> StepAt(s, "active")]
        complete == [s \in StageNames |-> StepAt(s, "complete")]
        activated == UNION {active[s] : s \in StageNames}
    IN  /\ \A i \in EventIndexes :
               events[i].type = "step"
                   => /\ events[i].step \in StageNames
                      /\ events[i].status \in {"active", "complete"}
        /\ \A s \in StageNames :
               /\ Cardinality(active[s]) <= 1
               /\ Cardinality(complete[s]) <= 1
               /\ \A c \in complete[s] : \E a \in active[s] : a < c
        /\ \A a \in activated :
               \A b \in activated :
                   a < b => /\ StageRank(events[a].step) < StageRank(events[b].step)
                            /\ \E c \in complete[events[a].step] : c < b
        /\ \A d \in EventIndexes :
               events[d].type = "done"
                   => \A s \in StageNames :
                          active[s] # {} => \E c \in complete[s] : c < d

\* a full run has gone through the four stages, streamed an answer and
\* written done
C25_Witness ==
    /\ ended
    /\ LastEvent.type = "done"
    /\ \A s \in StageNames : StepAt(s, "active") # {} /\ StepAt(s, "complete") # {}
    /\ CountOf("answerChunk") > 0
    /\ lastCall.name = "streamClaude"

TypeAt(type) == {i \in EventIndexes : events[i].type = type}

\* C26: in a full run the subQueries event comes before every subQueryStatus
\* event; the ids it lists are pairwise distinct and every subQueryStatus id
\* is one of them; a sub-query gets at most one searching and one complete
\* event, the complete after the searching, and exactly one of each once
\* sources has been written; the sub-queries are searched in list order, the
\* complete of one before the searching of the next; and every
\* subQueryStatus event comes before sources
C26_SubQueryEvents ==
    (request.body = "object" /\ ~request.sources_only)
        => LET lists == TypeAt("subQueries")
               statuses == TypeAt("subQueryStatus")
               sources == TypeAt("sources")
               searching == {i \in statuses : events[i].status = "searching"}
               complete == {i \in statuses : events[i].status = "complete"}
               \* the events of a status that are about a sub-query
               At(reported, id) == {i \in reported : events[i].id = id}
           IN  /\ Cardinality(lists) <= 1
               /\ statuses = searching \cup complete
               /\ \A i \in statuses :
                      /\ \E j \in lists :
                             /\ j < i
                             /\ \E k \in 1..Len(events[j].subQueries) :
                                    events[j].subQueries[k].id = events[i].id
                      /\ \A s \in sources : i < s
               /\ \A j \in lists :
                      LET listed == events[j].subQueries
                      IN  /\ \A a, b \in 1..Len(listed) :
                                 a # b => listed[a].id # listed[b].id
                          /\ \A k \in 1..Len(listed) :
                                 /\ Cardinality(At(searching, listed[k].id)) <= 1
                                 /\ Cardinality(At(complete, listed[k].id)) <= 1
                                 /\ \A c \in At(complete, listed[k].id) :
                                        \E a \in At(searching, listed[k].id) : a < c
                                 /\ sources # {}
                                        => /\ At(searching, listed[k].id) # {}
                                           /\ At(complete, listed[k].id) # {}
                                 /\ k < Len(listed)
                                        => \A a \in At(searching, listed[k + 1].id) :
                                               \E c \in At(complete, listed[k].id) : c < a

\* a full run over several sub-queries, one of which failed, has written
\* sources
C26_Witness ==
    /\ ~request.sources_only
    /\ Len(subQueriesWithIds) >= 3
    /\ TypeAt("sources") # {}
    /\ Cardinality(TypeAt("subQueryStatus")) = 6
    /\ \E i \in EventIndexes : events[i] = CompleteEvent(1, 0)
    /\ \E i \in EventIndexes : events[i] = CompleteEvent(2, 1)

\* the sources event of the run lists no source
NoSourceFound ==
    \E i \in EventIndexes : events[i] = [type |-> "sources", sources |-> <<>>]

\* C30: in a full run whose merged source list is empty, the events after
\* sources are step{search, complete}, step{synthesize, active}, one
\* answerChunk with the fixed no-relevant-documents text,
\* step{synthesize, complete} and done; the response is ended and the model
\* stream call is never started
C30_NoDocumentsAnswer ==
    (request.body = "object" /\ ~request.sources_only /\ NoSourceFound)
        => /\ ended
           /\ pc = "returned"
           /\ call = "none"
           /\ Started("streamClaude", -1) = 0
           /\ lastCall.name # "streamClaude"
           /\ CountOf("answerChunk") = 1
           /\ Len(events) >= 6
           /\ SubSeq(events, Len(events) - 5, Len(events)) =
                  << [type |-> "sources", sources |-> <<>>],
                     [type |-> "step", step |-> "search", status |-> "complete"],
                     [type |-> "step", step |-> "synthesize", status |-> "active"],
                     [type |-> "answerChunk",
                      text |-> "No relevant documents found for your query. Please try rephrasing your question."],
                     [type |-> "step", step |-> "synthesize", status |-> "complete"],
                     [type |-> "done"] >>

\* a full run over two sub-queries, neither of which found a document
C30_Witness ==
    /\ ~request.sources_only
    /\ NoSourceFound
    /\ Len(subQueriesWithIds) = 2
    /\ LastEvent.type = "done"
    /\ topSources = <<>>

-----------------------------------------------------------------------------
(* Properties of the frame decoder on arbitrary responses *)

\* C27: the processing of a data chunk terminates whatever the buffer holds:
\* the decode loop never enters an iteration that consumes nothing and does
\* not stop
C27_DecodeTerminates == ~hung

\* the eventType a frame names
ExpectedEventType(frame) ==
    IF frame \in {AlphaFrame, MixedHeaderFrame} THEN "contentBlockDelta" ELSE ""

\* C28: a header whose value type is not the string type is the only header
\* skipped: when a response of well-formed frames has arrived, the
\* :event-type of every frame has been read, also behind such a header, and
\* the text of every frame has been forwarded
C28_OnlyThatHeaderSkipped ==
    (/\ fed = Len(WireBytes)
     /\ \A i \in 1..Len(wire) : wire[i] \in {AlphaFrame, BetaFrame, MixedHeaderFrame})
        => /\ eventTypes = [i \in 1..Len(wire) |-> ExpectedEventType(wire[i])]
           /\ forwarded = [i \in 1..Len(wire) |->
                              IF wire[i] = BetaFrame THEN "beta" ELSE "alpha"]

-----------------------------------------------------------------------------
(* Properties of the answer stream *)

\* the texts of the answerChunk events sent so far, in the order sent
ChunkTexts ==
    LET chunks == SelectSeq(events, LAMBDA e : e.type = "answerChunk")
    IN  [i \in 1..Len(chunks) |-> chunks[i].text]

RECURSIVE Arrived(_, _)
\* the leading frames of frames that lie wholly within the first n bytes
Arrived(frames, n) ==
    IF frames = <<>> \/ Len(Head(frames)) > n THEN <<>>
    ELSE <<Head(frames)>> \o Arrived(Tail(frames), n - Len(Head(frames)))

\* streamClaude has resolved
StreamResolved == lastCall.name = "streamClaude" /\ lastCall.settled = "resolved"

\* C29: the answerChunk events sent are, in order, the non-empty delta texts
\* of the frames that have wholly arrived, one per such frame; none is sent
\* after step{synthesize, complete}, which is sent only once streamClaude has
\* resolved; and streamClaude resolves to the concatenation of the texts of
\* the answerChunk events, which are then those of all frames of the stream
C29_AnswerChunksInFrameOrder ==
    /\ ChunkTexts = ExpectedOf(Arrived(wire, fed))
    /\ \A i, j \in EventIndexes :
          (events[i].type = "answerChunk" /\ events[j] = StepEvent("synthesize", "complete"))
              => i < j
    /\ (\E j \in EventIndexes : events[j] = StepEvent("synthesize", "complete"))
          => StreamResolved
    /\ StreamResolved
          => /\ lastCall.value = Join(ChunkTexts)
             /\ ChunkTexts = ExpectedOf(wire)

\* streamClaude has resolved to "betaalpha" for a stream of a beta frame
\* followed by an alpha frame, and two answerChunk events were sent
C29_Witness ==
    /\ StreamResolved
    /\ wire = <<BetaFrame, AlphaFrame>>
    /\ lastCall.value = "betaalpha"
    /\ ChunkTexts = <<"beta", "alpha">>
    /\ LastEvent = DoneEvent

-----------------------------------------------------------------------------
(* Properties of the sources_only mode *)

\* the calls started so far under a name
CallsNamed(name) == {i \in 1..Len(callLog) : callLog[i].name = name}

\* C31: in a sources_only run the decomposition is never called; once the
\* search stage is entered the sub-query list is the one sub-query with the
\* text of the original query and the intent "main query"; every embedding
\* and retrieval call is for that sub-query; once the sources are written it
\* has been embedded exactly once, and searched exactly once unless its
\* embedding was rejected, in which case it was not searched
C31_SourcesOnlySingleSubQuery ==
    (request.body = "object" /\ request.sources_only)
        => LET embedded == CallsNamed("generateEmbedding")
               searched == CallsNamed("searchDocuments")
           IN  /\ CallsNamed("decomposeQuery") = {}
               /\ SearchStageEntered
                     => subQueriesWithIds = <<[id |-> 0, query |-> request.query,
                                               intent |-> "main query",
                                               status |-> "pending"]>>
               /\ \A i \in embedded \cup searched : callLog[i].id = 0
               /\ Cardinality(embedded) <= 1
               /\ Cardinality(searched) <= 1
               /\ \A s \in searched : \E e \in embedded : e < s
               /\ SearchStageOver
                     => /\ Cardinality(embedded) = 1
                        /\ lastCall.name \in {"generateEmbedding", "searchDocuments"}
                        /\ lastCall.name = "generateEmbedding"
                              => lastCall.settled = "rejected" /\ searched = {}
                        /\ lastCall.name = "searchDocuments" => Cardinality(searched) = 1

\* a sources_only run has ended with done after one embedding and one
\* retrieval that returned a hit
C31_Witness ==
    /\ request.body = "object"
    /\ request.sources_only
    /\ ended
    /\ LastEvent = DoneEvent
    /\ callLog = <<StartedCall("generateEmbedding", 0), StartedCall("searchDocuments", 0)>>
    /\ Len(topSources) > 0

-----------------------------------------------------------------------------
(* Properties of the model-invocation requests *)

RECURSIVE PercentDecoded(_)
\* the text a percent-encoded text stands for; "invalid" marks a character
\* that percent-encoding would not have left there
PercentDecoded(text) ==
    IF text = <<>> THEN <<>>
    ELSE IF Head(text) = "%"
         THEN IF Len(text) >= 3 /\ SubSeq(text, 2, 3) \in {<<"3", "A">>, <<"2", "F">>,
                                                          <<"2", "5">>, <<"2", "0">>}
              THEN <<CASE SubSeq(text, 2, 3) = <<"3", "A">> -> ":"
                       [] SubSeq(text, 2, 3) = <<"2", "F">> -> "/"
                       [] SubSeq(text, 2, 3) = <<"2", "5">> -> "%"
                       [] OTHER -> " ">>
                       \o PercentDecoded(SubSeq(text, 4, Len(text)))
              ELSE <<"invalid">> \o PercentDecoded(Tail(text))
         ELSE IF Head(text) \in UnreservedChars
              THEN <<Head(text)>> \o PercentDecoded(Tail(text))
              ELSE <<"invalid">> \o PercentDecoded(Tail(text))

\* a path is /model/<segment><suffix of the call>
WellFormedPath(path, kind) ==
    /\ Len(path) >= Len(ModelPrefix) + Len(PathSuffix(kind))
    /\ SubSeq(path, 1, Len(ModelPrefix)) = ModelPrefix
    /\ SubSeq(path, Len(path) - Len(PathSuffix(kind)) + 1, Len(path)) = PathSuffix(kind)

ModelSegment(path, kind) ==
    SubSeq(path, Len(ModelPrefix) + 1, Len(path) - Len(PathSuffix(kind)))

\* the model id a call is made for
InvokedModel ==
    IF invocation.kind = "generateEmbedding" THEN TitanModel ELSE invocation.CLAUDE_MODEL

\* C32: the path of a model-invocation request holds the model id
\* percent-encoded once, the path of its canonical request holds the sent
\* model segment percent-encoded once more, that is the model id twice; the
\* x-amz-content-sha256 header is the hash of the body sent, the x-amz-date
\* header the time of the call, and the authorization header is the signature
\* over the canonical request of that path, hash and time
C32_PathEncodedOnceSignedTwice ==
    pc = "invoked"
        => /\ WellFormedPath(sent.path, invocation.kind)
           /\ WellFormedPath(sent.canonicalPath, invocation.kind)
           /\ PercentDecoded(ModelSegment(sent.path, invocation.kind)) = InvokedModel
           /\ PercentDecoded(ModelSegment(sent.canonicalPath, invocation.kind))
                  = ModelSegment(sent.path, invocation.kind)
           /\ PercentDecoded(PercentDecoded(ModelSegment(sent.canonicalPath,
                                                          invocation.kind)))
                  = InvokedModel
           /\ sent.headers["x-amz-content-sha256"] = sha256(sent.body)
           /\ sent.headers["x-amz-date"] = invocation.now.date \o invocation.now.time
           /\ sent.headers["authorization"]
                  = InvokeHeaders(sent.canonicalPath, sent.body,
                                  invocation.now)["authorization"]

\* the stream request for the default model has been sent: ":" is %3A in the
\* path sent and %253A in the path signed
C32_Witness ==
    /\ pc = "invoked"
    /\ invocation.kind = "streamClaude"
    /\ invocation.CLAUDE_MODEL = DefaultClaudeModel
    /\ Join(sent.path) = "/model/us.anthropic.claude-sonnet-4-20250514-v1%3A0/converse-stream"
    /\ Join(sent.canonicalPath)
           = "/model/us.anthropic.claude-sonnet-4-20250514-v1%253A0/converse-stream"

-----------------------------------------------------------------------------
(* Properties of the sources list *)

\* C33: the sources list holds the best unique hits: it has min(8, number of
\* distinct ids gathered) entries, no two with the same id, each with the
\* highest score gathered for its id, and no id left out of the list has a
\* best score strictly greater than the score of an entry of the list
C33_SourcesAreBestUnique ==
    Ranked
        => LET gathered == Ids(allSources)
               listed == Ids(topSources)
           IN  /\ Len(topSources) = Min(TopN, Cardinality(gathered))
               /\ Cardinality(listed) = Len(topSources)
               /\ listed \subseteq gathered
               /\ \A i \in 1..Len(topSources) :
                      topSources[i].relevanceScore
                          = BestScore(allSources, topSources[i].id)
               /\ \A id \in gathered \ listed :
                      \A i \in 1..Len(topSources) :
                          BestScore(allSources, id) <= topSources[i].relevanceScore

\* more than 8 distinct documents were gathered, one of them twice; a
\* document left out of the list scores strictly less than the first entry
\* and ties with the last
C33_Witness ==
    /\ Ranked
    /\ Cardinality(Ids(allSources)) > TopN
    /\ Len(allSources) > Cardinality(Ids(allSources))
    /\ Len(topSources) = TopN
    /\ \E id \in Ids(allSources) \ Ids(topSources) :
           /\ BestScore(allSources, id) < topSources[1].relevanceScore
           /\ BestScore(allSources, id) = topSources[TopN].relevanceScore

-----------------------------------------------------------------------------
(* Properties of the decoder's buffer *)

\* the number four bytes stand for, most significant first
UInt32Of(b) == b[1] * 16777216 + b[2] * 65536 + b[3] * 256 + b[4]

RECURSIVE DeclaredCut(_, _, _)
\* the bytes cut into frames by the total length each declares: how many
\* frames are complete and how many bytes they take
DeclaredCut(bytes, count, used) ==
    IF Len(bytes) < 12 THEN [count |-> count, used |-> used]
    ELSE LET total == UInt32Of(SubSeq(bytes, 1, 4))
         IN  IF total = 0 \/ Len(bytes) < total THEN [count |-> count, used |-> used]
             ELSE DeclaredCut(SubSeq(bytes, total + 1, Len(bytes)), count + 1, used + total)

\* the frames before the last are text frames and the last is cut off
EndsTruncated ==
    /\ Len(wire) > 0
    /\ wire[Len(wire)] = TruncatedFrame
    /\ \A i \in 1..(Len(wire) - 1) : wire[i] \in {AlphaFrame, BetaFrame}

\* C34: after a data chunk has been processed the buffer holds less than one
\* complete frame: fewer than 12 bytes, or fewer than the total length its
\* first 4 bytes declare; it is the end of the bytes delivered, and the bytes
\* before it are those of the frames extracted, one eventType read for each:
\* no byte skipped, none decoded twice; and at the end of a stream whose last
\* frame is cut off, the texts forwarded are those of the frames before it
C34_BufferBelowOneFrame ==
    ~hung
        => LET cut == DeclaredCut(SubSeq(WireBytes, 1, fed), 0, 0)
           IN  /\ Len(buffer) < 12 \/ Len(buffer) < UInt32Of(SubSeq(buffer, 1, 4))
               /\ Len(buffer) <= fed
               /\ buffer = SubSeq(WireBytes, fed - Len(buffer) + 1, fed)
               /\ cut.used = fed - Len(buffer)
               /\ cut.count = Len(eventTypes)
               /\ (fed = Len(WireBytes) /\ EndsTruncated)
                     => /\ forwarded = ExpectedOf(SubSeq(wire, 1, Len(wire) - 1))
                        /\ buffer = TruncatedFrame

\* a stream of a beta frame and a cut-off frame has arrived: one text was
\* forwarded and the cut-off frame is left in the buffer
C34_Witness ==
    /\ ~hung
    /\ wire = <<BetaFrame, TruncatedFrame>>
    /\ fed = Len(WireBytes)
    /\ forwarded = <<"beta">>
    /\ Len(eventTypes) = 1
    /\ buffer = TruncatedFrame

-----------------------------------------------------------------------------
(* Properties of the CSR proxy *)

\* where res.end() has been called
EndCalls == {i \in 1..Len(clientOps) : clientOps[i].op = "end"}

\* the messages with which the proxy reports a failure of its own
FailureTexts ==
    {FailureJson(m) : m \in
        {"Internal server error: aborted",
         "CSR Agent request timeout - indexing may take several minutes for large documents"}
            \cup {"CSR Agent is not available: " \o e : e \in SocketErrors \cup {"socket hang up"}}}

\* the calls that report an error outcome to the caller: an error event, or
\* a body that is a failure text
ErrorReports ==
    {i \in 1..Len(clientOps) :
        \/ clientOps[i].op = "send" /\ clientOps[i].event.type = "error"
        \/ clientOps[i].op = "end" /\ clientOps[i].text \in FailureTexts}

\* C35: whatever the order of the events of the request to the agent, res is
\* ended at most once, and exactly once when the handler has returned and
\* that request is over; no status, header or data is written once it has
\* been ended; and at most one error outcome is reported
C35_ClientResponseEndedOnce ==
    /\ Cardinality(EndCalls) <= 1
    /\ \A e \in EndCalls : e = Len(clientOps)
    /\ Cardinality(ErrorReports) <= 1
    /\ (pc = "proxyReturned" /\ proxyReq.state \in {"none", "closed"}) => clientRes.ended
    /\ ~uncaught

\* the body is a JSON object that holds no session id
NoSessionId == inbound.kind = "object" /\ inbound.sessionId \in {Undefined, Str("")}

\* the body is a JSON object whose query is missing, empty or only blanks
BlankQuery ==
    inbound.kind = "object" /\ inbound.query \in {Undefined, Str(""), Str(" ")}

\* the calls of handleQuery on res before it reads the body
QueryPreamble == SubSeq(clientOps, 1, 5)

\* C36: for a query body that is an object without a session id, or with a
\* missing, empty or blank query, no request is ever made to the agent; once
\* the handler has returned, the only calls on res after the headers are one
\* error event and end(): Session ID is required when the session id is
\* missing, whatever the query, Query is required otherwise; and what was
\* written to the caller is the frame of that event alone
C36_InvalidQueryRejected ==
    (handler = "handleQuery" /\ (NoSessionId \/ BlankQuery))
        => /\ proxyReq.state = "none"
           /\ ~uncaught
           /\ pc # "proxyReturned" => ~clientRes.ended /\ clientRes.written = <<>>
           /\ pc = "proxyReturned"
                 => LET message == IF NoSessionId THEN "Session ID is required"
                                   ELSE "Query is required"
                    IN  /\ Len(clientOps) = 7
                        /\ \A i \in 1..5 : clientOps[i].op \in {"setHeader", "flushHeaders"}
                        /\ clientOps[6] = [op |-> "send",
                                           event |-> [type |-> "error", message |-> message]]
                        /\ clientOps[7] = [op |-> "end", text |-> ""]
                        /\ clientRes.ended
                        /\ clientRes.written
                               = <<"data: {\"type\":\"error\",\"message\":\"" \o message
                                       \o "\"}\n\n">>

\* a query of blanks with a session id has been answered Query is required
C36_Witness ==
    /\ handler = "handleQuery"
    /\ pc = "proxyReturned"
    /\ inbound.kind = "object"
    /\ inbound.sessionId = Str("s1")
    /\ inbound.query = Str(" ")
    /\ clientRes.ended
    /\ clientRes.written = <<SseFrame(ProxyEvent("error", "Query is required"))>>
    /\ proxyReq.state = "none"

=============================================================================
